---- MODULE Spec2Model ----
(***************************************************************************)
(* The sandboxed mini-app loader of src/src/components/Breadcrumbs.vue     *)
(* (second <script setup>, lines 76-673): the descriptor watch,            *)
(* loadProject, injectHtml, cloneNodeTree, clearShadow, the instrumented   *)
(* window/document and onBeforeUnmount, as a state machine.                *)
(*                                                                         *)
(* One step of the model is one synchronous turn of the JavaScript event   *)
(* loop: a watcher callback, the resumption of an async function after an  *)
(* await, the firing of a timer, a call made by mini-app code.             *)
(***************************************************************************)
EXTENDS Integers, Sequences, FiniteSets, TLC

\* ---------------------------------------------------------------- bounds
\* Tickets minted in one run (descriptor changes plus the unmount).
MaxTicket == 2
\* Calls a mini-app makes through its instrumented scope, and teardown
\* functions it stores in the ledger, in one run.
MaxRes == 2
\* Invocations counted per callback.
MaxCalls == 1

\* ---------------------------------------------------------------- inputs
\* [props.project?.slug ?? '', props.project?.entryPoint ?? '']: a descriptor
\* without slug, one without entry point, a complete one.
Descriptors == { <<"", "u">>, <<"a", "">>, <<"a", "u">> }

\* Top-level nodes of a fetched document body:
\*   elem   an element without scripts          -> cloned and attached
\*   inline <script> with inline text           -> pushed to the bucket
\*   ext    <script src>                        -> fetched, then pushed
\*   wrap   an element holding one <script src> -> fetched inside, then attached
\*   nest   an element holding two <script src> -> fetched one after the other
\*   throws an inline script that throws when run
\*   syntax an inline script whose text does not compile
\*   badtype <script type="text/x-not-js" src>  -> dropped
\*   malformed an element with a URL attribute that `new URL` rejects
Documents ==
  { <<"inline", "elem">>, <<"ext", "throws", "inline">>, <<"wrap", "badtype">>,
    <<"syntax">>, <<"elem", "malformed">>, <<"nest", "elem">> }

\* Resource-creating calls of the instrumented scope.
TimerKinds == {"setTimeout", "setInterval", "requestAnimationFrame"}

Tickets == 1..MaxTicket

VARIABLES
  ticket,            \* let ticket = 0
  activeController,  \* ticket of the load whose AbortController it is, 0 = null
  phase,             \* "setup" | "mounted" | "unmounted"
  shadow,            \* host.value.shadowRoot and its ad hoc fields
  res,               \* calls made through instrumented scopes, in call order
  loads,             \* one loadProject activation per ticket
  events,            \* lifecycle events emitted, in order
  applied,           \* the helper or server function applied, its input and output
  app,               \* the host application's state (App.vue)
  sizer              \* the DPR sizer and the canvases of the shadow root

vars == <<ticket, activeController, phase, shadow, res, loads, events, applied, app, sizer>>

\* The loader's own variables, and those of the other components.
sandboxVars == <<ticket, activeController, phase, shadow, res, loads, events>>

Range(s) == {s[i] : i \in DOMAIN s}

\* No function applied yet; no host application; no sizer.
NoCall == [fn |-> "none"]
NoApp == [selectedSlug |-> "none"]
NoSizer == [enabled |-> "none"]

\* A loadProject activation.  bucket is scriptsBucket (the top-level node each
\* script came from), exec the scripts run so far, in order.  History:
\* prepared is the number of scope calls made before this load's injectHtml
\* drained the ledger (-1: not yet), status the entry response's status
\* (-1: no response yet), failed the message of the error the load ran into,
\* head the child nodes of the parsed document's <head>, cloned the number of
\* nodes cloneNodeTree was called on, rootAtRun what __sandboxDisposed said of
\* the root when the load's scripts were run.  inner is the child of top-level
\* node idx whose script fetch is awaited.
NoLoad == [pc |-> "none", slug |-> "", entryPoint |-> "", aborted |-> FALSE,
           doc |-> <<>>, idx |-> 0, inner |-> 0, bucket |-> <<>>, exec |-> <<>>,
           ran |-> FALSE, prepared |-> -1, status |-> -1, failed |-> "",
           head |-> <<>>, cloned |-> 0, rootAtRun |-> "unset"]

\* createEventPayload(slug, entryPoint, ticketValue, extra)
createEventPayload(slug, entryPoint, ticketValue, extra) ==
  [slug |-> slug, entryPoint |-> entryPoint, ticket |-> ticketValue, extra |-> extra]

\* emit(type, payload); at is history: the module ticket when it was emitted.
emit(evs, type, payload, now) ==
  Append(evs, [type |-> type, slug |-> payload.slug, entryPoint |-> payload.entryPoint,
               ticket |-> payload.ticket, extra |-> payload.extra, at |-> now])

\* host.value: null while setup runs and after the component is unmounted
hostValue == IF phase = "mounted" THEN "el" ELSE "null"

NoShadow == [has |-> FALSE, children |-> {}, ledger |-> <<>>, disposed |-> FALSE]

\* ---------------------------------------------------------------- ledger
\* Whether an exception thrown by the release action of a resource of kind k
\* leaves the forEach: the try/catch of lines 116-120 and 379-383 logs it.
\* (A loop without the try/catch.)
throwEscapesDrain(k) == k = "cleanupThrows"

escapesDrain(k) == FALSE

\* The forEach of lines 115-121 and 378-384 from entry i on: each release
\* action is invoked (released is history), the browser drops the resource.
RECURSIVE releaseFrom(_, _, _)
releaseFrom(rs, ledger, i) ==
  IF i > Len(ledger) THEN rs
  ELSE IF escapesDrain(rs[ledger[i]].kind)
  THEN [rs EXCEPT ![ledger[i]].released = TRUE]
  ELSE releaseFrom([rs EXCEPT ![ledger[i]].live = FALSE, ![ledger[i]].released = TRUE],
                   ledger, i + 1)

\* Running every release action of a ledger.
\* (A drain that forgets to invoke the release actions.)
cleanupNotInvoked(rs, ledger) == rs

RunCleanup(rs, ledger) == releaseFrom(rs, ledger, 1)

\* History only: every call made so far has now seen a drain (tornAt) or a
\* clearShadow (disposedAt); the invocation count at that moment is kept.
MarkTorn(rs) == [r \in DOMAIN rs |-> [rs[r] EXCEPT !.tornAt = rs[r].calls]]
MarkDisposed(rs) == [r \in DOMAIN rs |-> [rs[r] EXCEPT !.disposedAt = rs[r].calls]]

\* target.__sandboxDisposed as read by the instrumented scheduling calls
\* (A scope that never looks at the flag.)
flagNeverRead(sh) == FALSE

sandboxDisposed(sh) == sh.disposed

\* clearShadow() on an existing shadow root: the ledger is emptied, the root
\* is marked disposed and its children are removed (lines 122-133).
\* (Variants that do not set the flag, or keep the children.)
clearWithoutFlag(sh) == [sh EXCEPT !.ledger = <<>>, !.children = {}]

clearKeepsChildren(sh) == [sh EXCEPT !.ledger = <<>>, !.disposed = TRUE]

clearShadowRoot(sh) ==
  [sh EXCEPT !.ledger = <<>>, !.disposed = TRUE, !.children = {}]

\* clearShadow(): no-op without host or shadow root (line 110)
\* (A clearShadow that always returns early.)
clearShadowSkipped(h, sh, rs) == [sh |-> sh, rs |-> rs]

clearShadow(h, sh, rs) ==
  IF h = "null" \/ ~sh.has
  THEN [sh |-> sh, rs |-> rs]
  ELSE [sh |-> clearShadowRoot(sh),
        rs |-> MarkDisposed(MarkTorn(RunCleanup(rs, sh.ledger)))]

\* injectHtml lines 372-420: attach the shadow root if needed, drain the
\* ledger of the previous project, clear the DOM, reset the disposed flag and
\* append the default stylesheet (node <<t, 0>>).
\* (An injectHtml that replaces the ledger without invoking it.)
injectDrainSkipped(rs, ledger) == rs

injectDrain(rs, ledger) == RunCleanup(rs, ledger)

\* (An injectHtml that leaves the disposed flag as it finds it.)
injectPrepareKeepsFlag(sh, t) ==
  [has |-> TRUE, children |-> {<<t, 0>>}, ledger |-> <<>>, disposed |-> sh.disposed]

injectPrepare(sh, t) ==
  [has |-> TRUE, children |-> {<<t, 0>>}, ledger |-> <<>>, disposed |-> FALSE]

\* ---------------------------------------------------------------- scope
\* Teardown functions a mini-app stores in the ledger itself, as the guide
\* shows (root.__sandboxCleanup.push, part_002 lines 366-378): one that
\* returns and one that throws.  Nothing of the browser is registered for
\* them.
CleanupKinds == {"cleanup", "cleanupThrows"}

\* A call of kind k through the instrumented scope of load t (lines 439-545),
\* or a teardown function stored by the mini-app.
\* Timers and animation frames are not scheduled on a disposed root (handle
\* -1); listeners and observers are always registered.  A registered resource
\* gets its release action appended to the ledger.  onDisposed and turn are
\* history: the flag at the time of the call, and whether the call was made
\* in the synchronous turn of a clearShadow().
\* (A scope that performs the operation and keeps no release action.)
scopeCallUntracked(sh, rs, t, k, sameTurn) ==
  [sh |-> sh,
   rs |-> Append(rs, [kind |-> k, owner |-> t, handle |-> Len(rs) + 1,
                      live |-> k \notin CleanupKinds, calls |-> 0, turn |-> sameTurn,
                      onDisposed |-> sh.disposed, tornAt |-> -1, disposedAt |-> -1,
                      released |-> FALSE])]

scopeCall(sh, rs, t, k, sameTurn) ==
  LET inert == k \in TimerKinds /\ sandboxDisposed(sh)
      id == Len(rs) + 1
      rec == [kind |-> k, owner |-> t, handle |-> IF inert THEN -1 ELSE id,
              live |-> ~inert /\ k \notin CleanupKinds, calls |-> 0, turn |-> sameTurn,
              onDisposed |-> sh.disposed, tornAt |-> -1, disposedAt |-> -1,
              released |-> FALSE]
  IN [sh |-> IF inert THEN sh ELSE [sh EXCEPT !.ledger = Append(@, id)],
      rs |-> Append(rs, rec)]

\* Mini-app code of load t holds an instrumented scope once a script of it ran.
HasScope(t) == Len(loads[t].exec) > 0

\* A turn that disposes the root, with an optional setTimeout made by
\* mini-app code of load t in the same synchronous turn, before or after
\* the clearShadow() call.
DisposeTurn(h, call, t) ==
  LET s0 == [sh |-> shadow, rs |-> res]
      s1 == IF call = "before" THEN scopeCall(shadow, res, t, "setTimeout", TRUE) ELSE s0
      s2 == clearShadow(h, s1.sh, s1.rs)
  IN IF call = "after" THEN scopeCall(s2.sh, s2.rs, t, "setTimeout", TRUE) ELSE s2

TurnCallOk(call, t) ==
  call # "none" => (HasScope(t) /\ Len(res) < MaxRes)

\* ---------------------------------------------------------------- loader
\* activeController.abort() (lines 605-607 and 666-668)
\* (A loadProject that leaves the previous controller alone.)
abortNothing(ls) == ls

abortActive(ls) ==
  IF activeController = 0 THEN ls
  ELSE [ls EXCEPT ![activeController].aborted = TRUE]

\* loadProject lines 605-614: abort the previous controller, create a new
\* one, emit 'loading', start the entry-document fetch.
\* (A loadProject that starts the fetch without announcing it.)
loadProjectSilent(slug, entryPoint, currentTicket) ==
  /\ loads' = [abortActive(loads) EXCEPT ![currentTicket] =
                 [NoLoad EXCEPT !.pc = "fetch", !.slug = slug, !.entryPoint = entryPoint]]
  /\ activeController' = currentTicket
  /\ UNCHANGED <<shadow, res, events>>

loadProject(slug, entryPoint, currentTicket) ==
  /\ loads' = [abortActive(loads) EXCEPT ![currentTicket] =
                 [NoLoad EXCEPT !.pc = "fetch", !.slug = slug, !.entryPoint = entryPoint]]
  /\ activeController' = currentTicket
  /\ events' = emit(events, "loading",
                    createEventPayload(slug, entryPoint, currentTicket, "none"),
                    currentTicket)
  /\ UNCHANGED <<shadow, res>>

\* !slug, !entryPoint (lines 641, 652): the empty string is falsy
\* (A watcher without the guards.)
neverMissing(value) == FALSE

isMissing(value) == value = ""

\* The watch callback, lines 639-659, run with host.value = h.
watchCallback(slug, entryPoint, h, call, t) ==
  LET currentTicket == ticket + 1 IN
  /\ ticket' = currentTicket
  /\ IF isMissing(slug) \/ isMissing(entryPoint)
     THEN LET d == DisposeTurn(h, call, t) IN
          /\ TurnCallOk(call, t)
          /\ shadow' = d.sh
          /\ res' = d.rs
          /\ events' =
               IF isMissing(slug)
               THEN emit(events, "error",
                         createEventPayload(slug, entryPoint, currentTicket, "missing slug"),
                         currentTicket)
               ELSE emit(events, "loaded",
                         createEventPayload(slug, entryPoint, currentTicket, "empty"),
                         currentTicket)
          /\ UNCHANGED <<activeController, loads>>
     ELSE /\ call = "none"
          /\ loadProject(slug, entryPoint, currentTicket)

\* watch(..., { immediate: true }): the first run happens inside setup(),
\* before the template ref is set; the component is mounted in the same task.
Setup(slug, entryPoint) ==
  /\ phase = "setup"
  /\ watchCallback(slug, entryPoint, "null", "none", 1)
  /\ phase' = "mounted"

\* A later run of the watcher: the parent passed another project.
Watch(slug, entryPoint, call, t) ==
  /\ phase = "mounted"
  /\ ticket < MaxTicket
  /\ watchCallback(slug, entryPoint, hostValue, call, t)
  /\ UNCHANGED phase

\* onBeforeUnmount, lines 663-672 (host.value is still set in the hook).
Unmount(call, t) ==
  /\ phase = "mounted"
  /\ ticket < MaxTicket
  /\ TurnCallOk(call, t)
  /\ LET d == DisposeTurn(hostValue, call, t) IN
       /\ shadow' = d.sh
       /\ res' = d.rs
  /\ ticket' = ticket + 1
  /\ loads' = abortActive(loads)
  /\ activeController' = 0
  /\ phase' = "unmounted"
  /\ UNCHANGED events

\* ---------------------------------------------------------------- injectHtml
\* ticket === currentTicket (lines 426, 433, 548, 622, 629)
\* (A continuation that takes itself for current.)
ticketNeverChecked(t) == TRUE

ticketIsCurrent(t) == ticket = t

\* error?.name === 'AbortError' (line 626): the fetch was given the signal of
\* the load's controller, so it rejects with AbortError once that is aborted.
\* (A catch block that returns on every rejected fetch.)
swallowsEveryError(ld) == TRUE

isAbortError(ld) == ld.aborted

\* const JS_MIME_TYPES (line 97)
JS_MIME_TYPES == {"", "text/javascript", "application/javascript"}

\* node.getAttribute('type') || '' of the script kinds: the fetched script
\* spells its type with capitals and blanks around it.
typeAttribute(k) ==
  CASE k = "badtype" -> "text/x-not-js"
    [] k = "ext" -> " Text/JavaScript "
    [] k = "throws" -> "application/javascript"
    [] OTHER -> ""

\* .trim().toLowerCase() on the type values in use (line 328)
trimLowerCase(value) ==
  IF value = " Text/JavaScript " THEN "text/javascript" ELSE value

\* cloneNodeTree's view of a top-level node (lines 327-344).
isScript(k) == k \in {"inline", "throws", "syntax", "ext", "badtype"}

hasSrc(k) == k \in {"ext", "badtype"}

\* type && !JS_MIME_TYPES.has(type) does not hold (line 329)
\* (A transformer that takes every type for JavaScript.)
anyTypeExecutable(k) == TRUE

isExecutableType(k) ==
  LET type == trimLowerCase(typeAttribute(k)) IN ~(type # "" /\ type \notin JS_MIME_TYPES)

\* scriptsBucket.push({ code }) (lines 339, 341)
\* (An unshift in place of the push.)
pushFront(bucket, j) == <<j>> \o bucket

pushScript(bucket, j) == Append(bucket, j)

\* target.appendChild(cloned) (line 429)
\* (A loop that clones and forgets to attach.)
attachNothing(sh, t, j) == sh

attachClone(sh, t, j) == [sh EXCEPT !.children = @ \cup {<<t, j>>}]

\* Whether running script kind k leaves the forEach of lines 547-590 by an
\* exception: new Function (line 556) is outside the try block, so a script
\* that does not compile does; one that throws when run is caught (line 587).
\* (A loop without the try/catch.)
everyThrowEscapes(k) == k \in {"syntax", "throws"}

escapesLoop(k) == k = "syntax"

\* scriptsBucket.forEach (lines 547-590) from entry i on: the scripts run, in
\* bucket order, and whether an exception left the loop.
RECURSIVE runScripts(_, _, _, _)
runScripts(doc, bucket, i, exec) ==
  IF i > Len(bucket) THEN [exec |-> exec, err |-> FALSE]
  ELSE IF escapesLoop(doc[bucket[i]]) THEN [exec |-> exec, err |-> TRUE]
  ELSE runScripts(doc, bucket, i + 1, Append(exec, bucket[i]))

\* History: target.__sandboxDisposed as the scripts exec of a load see it
\* when they are run (lines 470, 486, 502 read it on their behalf).
rootFlag(sh, exec) ==
  IF exec = <<>> THEN "unset" ELSE IF sh.disposed THEN "disposed" ELSE "live"

\* The for-loop of injectHtml (lines 425-433) from top-level node j up to its
\* next fetch, and, when the loop is over, the rest of injectHtml and of
\* loadProject's try block (script execution, 'loaded').  A node without
\* <script src> is cloned without leaving the turn's microtasks: an inline
\* script is pushed to the bucket, an element is attached.  err is the
\* message of the exception that ended the try block, "" if none.
RECURSIVE Advance(_, _, _, _)
Advance(t, ld, sh, j) ==
  LET stop == [ld |-> [ld EXCEPT !.pc = "done", !.idx = j], sh |-> sh,
               ev |-> events, err |-> ""]
      k == ld.doc[j]
  IN
  IF j > Len(ld.doc)
  THEN IF ~ticketIsCurrent(t) THEN stop
       ELSE LET r == runScripts(ld.doc, ld.bucket, 1, <<>>) IN
            IF r.err
            THEN [ld |-> [ld EXCEPT !.pc = "done", !.idx = j, !.exec = r.exec,
                                    !.rootAtRun = rootFlag(sh, r.exec),
                                    !.failed = "SyntaxError"],
                  sh |-> sh, ev |-> events, err |-> "SyntaxError"]
            ELSE [ld |-> [ld EXCEPT !.pc = "done", !.idx = j, !.exec = r.exec,
                                    !.rootAtRun = rootFlag(sh, r.exec),
                                    !.ran = TRUE],
                  sh |-> sh,
                  ev |-> IF ticketIsCurrent(t)
                         THEN emit(events, "loaded",
                                createEventPayload(ld.slug, ld.entryPoint, t, "none"),
                                ticket)
                         ELSE events,
                  err |-> ""]
  ELSE IF ~ticketIsCurrent(t) THEN stop
  ELSE IF isScript(k) /\ ~isExecutableType(k)
  THEN Advance(t, [ld EXCEPT !.cloned = @ + 1], sh, j + 1)
  ELSE IF (isScript(k) /\ hasSrc(k)) \/ k \in {"wrap", "nest"}
  THEN [ld |-> [ld EXCEPT !.pc = "await", !.idx = j, !.inner = 1, !.cloned = @ + 1],
        sh |-> sh, ev |-> events, err |-> ""]
  ELSE IF isScript(k)
  THEN Advance(t, [ld EXCEPT !.bucket = pushScript(@, j), !.cloned = @ + 1], sh, j + 1)
  ELSE IF k = "malformed"
  THEN [ld |-> [ld EXCEPT !.pc = "done", !.idx = j, !.failed = "Invalid URL",
                          !.cloned = @ + 1],
        sh |-> sh, ev |-> events, err |-> "Invalid URL"]
  ELSE Advance(t, [ld EXCEPT !.cloned = @ + 1], attachClone(sh, t, j), j + 1)

\* loadProject's catch block, lines 625-634, for an error that is no
\* AbortError, entered with shadow root sh, resources rs and events evs.
catchBlock(t, message, sh, rs, evs) ==
  IF ticketIsCurrent(t)
  THEN LET d == clearShadow(hostValue, sh, rs) IN
       [sh |-> d.sh, rs |-> d.rs,
        ev |-> emit(evs, "error",
                    createEventPayload(loads[t].slug, loads[t].entryPoint, t, message),
                    ticket)]
  ELSE [sh |-> sh, rs |-> rs, ev |-> evs]

CatchError(t, message) ==
  LET c == catchBlock(t, message, shadow, res, events) IN
  /\ shadow' = c.sh
  /\ res' = c.rs
  /\ events' = c.ev

\* The outcome of the try block once injectHtml went as far as a: its catch
\* block if an exception ended it.
Settle(t, a, rs) ==
  LET c == IF a.err # "" THEN catchBlock(t, a.err, a.sh, rs, a.ev)
           ELSE [sh |-> a.sh, rs |-> rs, ev |-> a.ev] IN
  /\ shadow' = c.sh
  /\ res' = c.rs
  /\ events' = c.ev
  /\ loads' = [loads EXCEPT ![t] = a.ld]

\* The responses of the static file provider, and a rejected fetch (status 0).
\* parser.parseFromString(html, 'text/html'), line 371: the child nodes of
\* the document's head for each body; one document declares a stylesheet
\* link and an external script in its <head>.
headOf(body) == IF body = <<"inline", "elem">> THEN <<"sheet", "ext">> ELSE <<>>

FetchOutcomes ==
  {[status |-> 200, doc |-> d, head |-> headOf(d)] : d \in Documents}
    \cup {[status |-> 404, doc |-> <<>>, head |-> <<>>],
          [status |-> 0, doc |-> <<>>, head |-> <<>>]}

\* response.ok (line 615)
\* (A loader that does not look at the status.)
responseAlwaysOk(status) == TRUE

responseOk(status) == status = 200

\* `Unable to load project asset (${response.status})` (line 616) and
\* `Unable to load project script (${response.status})` (line 337)
\* (A message that leaves the status out.)
statuslessMessage(what, status) == "Unable to load"

failureMessage(what, status) ==
  IF what = "asset" THEN "Unable to load project asset (404)"
  ELSE "Unable to load project script (404)"

\* Resumption of loadProject after `await fetch(entryPoint, { signal })` and
\* `await response.text()`, lines 614-624, running injectHtml up to its first
\* await.
FetchDone(t, outcome) ==
  /\ loads[t].pc = "fetch"
  /\ UNCHANGED <<ticket, activeController, phase>>
  /\ loads[t].aborted => outcome.status = 0
  /\ IF outcome.status = 0 /\ isAbortError(loads[t])
     THEN \* line 627: return
          /\ loads' = [loads EXCEPT ![t].pc = "done", ![t].status = 0]
          /\ UNCHANGED <<shadow, res, events>>
     ELSE IF outcome.status = 0
     THEN /\ loads' = [loads EXCEPT ![t].pc = "done", ![t].status = 0,
                                    ![t].failed = "Failed to fetch"]
          /\ CatchError(t, "Failed to fetch")
     ELSE IF ~responseOk(outcome.status)
     THEN /\ loads' = [loads EXCEPT ![t].pc = "done", ![t].status = outcome.status,
                         ![t].failed = failureMessage("asset", outcome.status)]
          /\ CatchError(t, failureMessage("asset", outcome.status))
     ELSE IF hostValue = "null"
     THEN \* injectHtml returns at line 368
          /\ loads' = [loads EXCEPT ![t].pc = "done", ![t].doc = outcome.doc,
                                    ![t].head = outcome.head,
                                    ![t].status = outcome.status]
          /\ events' = IF ticketIsCurrent(t)
                       THEN emit(events, "loaded", createEventPayload(
                              loads[t].slug, loads[t].entryPoint, t, "none"), ticket)
                       ELSE events
          /\ UNCHANGED <<shadow, res>>
     ELSE Settle(t,
                 Advance(t, [loads[t] EXCEPT !.doc = outcome.doc,
                                             !.head = outcome.head,
                                             !.status = outcome.status,
                                             !.prepared = Len(res)],
                         injectPrepare(shadow, t), 1),
                 MarkTorn(injectDrain(res, shadow.ledger)))

\* Resumption of cloneNodeTree after the script fetch of top-level node idx
\* (lines 335-339), and of injectHtml after `await cloneNodeTree(child, ...)`
\* (lines 427-431): the script is pushed to the bucket, the element that held
\* it (if any) goes on with its next child (lines 356-361) and is attached
\* after its last, and the loop goes on.
Continue(t, ok) ==
  /\ loads[t].pc = "await"
  /\ UNCHANGED <<ticket, activeController, phase>>
  /\ IF ~ok
     THEN /\ loads' = [loads EXCEPT ![t].pc = "done",
                         ![t].failed = failureMessage("script", 404)]
          /\ CatchError(t, failureMessage("script", 404))
     ELSE IF loads[t].doc[loads[t].idx] = "nest" /\ loads[t].inner = 1
     THEN /\ loads' = [loads EXCEPT ![t].bucket = pushScript(@, loads[t].idx),
                                    ![t].inner = 2, ![t].cloned = @ + 1]
          /\ UNCHANGED <<shadow, res, events>>
     ELSE LET ld == loads[t]
              ld1 == [ld EXCEPT !.bucket = pushScript(@, ld.idx)]
              sh1 == IF ld.doc[ld.idx] \in {"wrap", "nest"}
                     THEN attachClone(shadow, t, ld.idx)
                     ELSE shadow
          IN Settle(t, Advance(t, ld1, sh1, ld.idx + 1), res)

\* ---------------------------------------------------------------- mini-app
\* Mini-app code of load t calls k through its instrumented scope: from a
\* script, from a callback, or from a continuation the sandbox does not
\* intercept (a promise, an element's event handler).
ScopeCall(t, k) ==
  /\ HasScope(t)
  /\ Len(res) < MaxRes
  /\ LET c == scopeCall(shadow, res, t, k, FALSE) IN
       /\ shadow' = c.sh
       /\ res' = c.rs
  /\ UNCHANGED <<ticket, activeController, phase, loads, events>>

\* A script of load t stores a teardown function in the ledger of the root
\* it was given as sandboxRoot (lines 437, 575-576).
PushCleanup(t, k) ==
  /\ HasScope(t)
  /\ Len(res) < MaxRes
  /\ LET c == scopeCall(shadow, res, t, k, FALSE) IN
       /\ shadow' = c.sh
       /\ res' = c.rs
  /\ UNCHANGED <<ticket, activeController, phase, loads, events>>

\* clearTimeout, clearInterval, cancelAnimationFrame (not intercepted: bound
\* to the real window, lines 538-539) and removeEventListener (lines 449-452,
\* 521-523) go straight to the browser, which drops resource r.
\* (A scope that also takes the release action out of the ledger.)
scopeCancelUnregisters(sh, rs, r) ==
  [sh |-> [sh EXCEPT !.ledger = SelectSeq(@, LAMBDA i : i # r)],
   rs |-> [rs EXCEPT ![r].live = FALSE]]

scopeCancel(sh, rs, r) ==
  [sh |-> sh, rs |-> [rs EXCEPT ![r].live = FALSE]]

\* Mini-app code of load t cancels a timer, a frame or a listener of its own
\* through its instrumented scope.
ScopeCancel(t, r) ==
  /\ HasScope(t)
  /\ r \in DOMAIN res
  /\ res[r].owner = t
  /\ res[r].kind \in TimerKinds \cup {"addEventListener"}
  /\ res[r].live
  /\ LET c == scopeCancel(shadow, res, r) IN
       /\ shadow' = c.sh
       /\ res' = c.rs
  /\ UNCHANGED <<ticket, activeController, phase, loads, events>>

\* Whether the wrapper the scope registered lets the callback run
\* (lines 475, 491, 507; listeners and observers are not wrapped).
wrapperRuns(k, sh) == k \in TimerKinds => ~sandboxDisposed(sh)

\* The browser fires a live timer or frame, or dispatches to a live listener
\* or observer: the wrapper runs, and the callback behind it if allowed.
Fire(r) ==
  /\ r \in DOMAIN res
  /\ res[r].live
  /\ res[r].calls < MaxCalls
  /\ res' = [res EXCEPT
       ![r].calls = IF wrapperRuns(res[r].kind, shadow) THEN @ + 1 ELSE @,
       ![r].live = res[r].kind \notin {"setTimeout", "requestAnimationFrame"}]
  /\ UNCHANGED <<ticket, activeController, phase, shadow, loads, events>>

\* ---------------------------------------------------------------- spec
Init ==
  /\ ticket = 0
  /\ activeController = 0
  /\ phase = "setup"
  /\ shadow = NoShadow
  /\ res = <<>>
  /\ loads = [t \in Tickets |-> NoLoad]
  /\ events = <<>>
  /\ applied = NoCall
  /\ app = NoApp
  /\ sizer = NoSizer

TurnCalls == {"none", "before", "after"}

Next ==
  \/ \E d \in Descriptors : Setup(d[1], d[2]) /\ UNCHANGED <<applied, app, sizer>>
  \/ \E d \in Descriptors, c \in TurnCalls, t \in Tickets :
       Watch(d[1], d[2], c, t) /\ UNCHANGED <<applied, app, sizer>>
  \/ \E c \in TurnCalls, t \in Tickets : Unmount(c, t) /\ UNCHANGED <<applied, app, sizer>>
  \/ \E t \in Tickets, o \in FetchOutcomes :
       FetchDone(t, o) /\ UNCHANGED <<applied, app, sizer>>
  \/ \E t \in Tickets, ok \in BOOLEAN : Continue(t, ok) /\ UNCHANGED <<applied, app, sizer>>
  \/ \E t \in Tickets, k \in TimerKinds \cup {"addEventListener", "ResizeObserver"} : ScopeCall(t, k) /\ UNCHANGED <<applied, app, sizer>>
  \/ \E t \in Tickets, k \in CleanupKinds : PushCleanup(t, k) /\ UNCHANGED <<applied, app, sizer>>
  \/ \E r \in 1..MaxRes : Fire(r) /\ UNCHANGED <<applied, app, sizer>>
  \/ \E t \in Tickets, r \in 1..MaxRes :
       ScopeCancel(t, r) /\ UNCHANGED <<applied, app, sizer>>

Spec == Init /\ [][Next]_vars

\* Every pending fetch completes and every resumed continuation runs; the
\* component's setup always runs.
Fairness ==
  /\ WF_vars((\E d \in Descriptors : Setup(d[1], d[2])) /\ UNCHANGED <<applied, app, sizer>>)
  /\ \A t \in Tickets :
       WF_vars((\E o \in FetchOutcomes : FetchDone(t, o)) /\ UNCHANGED <<applied, app, sizer>>)
  /\ \A t \in Tickets :
       WF_vars((\E ok \in BOOLEAN : Continue(t, ok)) /\ UNCHANGED <<applied, app, sizer>>)

FairSpec == Spec /\ Fairness

\* ====================================================================
\* The URL helpers of Breadcrumbs.vue, lines 261-316: isExternal,
\* resolveUrl, normaliseSrcSet, transferAttributes.  A string is the
\* sequence of its characters; `new URL(value, baseUrl)` follows the URL
\* parser for a relative reference against an http(s) base.
\* ====================================================================

\* Longest attribute value handed to resolveUrl, longest srcset value.
MaxUrlLen == 4
MaxSrcSetLen == 5

Strings(chars, n) == UNION {[1..k -> chars] : k \in 0..n}

\* The entry point /p/d/i.
EntryPoint == <<"/", "p", "/", "d", "/", "i">>

startsWith(value, prefix) ==
  /\ Len(value) >= Len(prefix)
  /\ SubSeq(value, 1, Len(prefix)) = prefix

\* First position at or after i of a character of stop, Len + 1 if none.
RECURSIVE indexOfAny(_, _, _)
indexOfAny(value, stop, i) ==
  IF i > Len(value) \/ value[i] \in stop THEN i ELSE indexOfAny(value, stop, i + 1)

\* /^[a-z][a-z0-9+\-.]*:/i, the first alternative of isExternal's pattern.
schemeNeverMatches(value) == FALSE

hasScheme(value) ==
  LET k == indexOfAny(value, {":"}, 1)
  IN /\ k <= Len(value)
     /\ k > 1
     /\ value[1] = "a"
     /\ \A j \in 2..(k - 1) : value[j] \in {"a", "."}

\* isExternal, lines 261-262 (a data: URL carries a scheme).
isExternal(value) ==
  \/ hasScheme(value)
  \/ startsWith(value, <<"/", "/">>)

\* The URL parser's "shorten a path" for an http(s) URL.
shorten(path) == IF path = <<>> THEN path ELSE SubSeq(path, 1, Len(path) - 1)

\* The URL parser's path state from position i: dot segments are resolved,
\* a backslash is a slash; stops at "?", "#" or the end of the input.
RECURSIVE pathState(_, _, _, _)
pathState(input, i, buffer, path) ==
  LET c == IF i > Len(input) THEN "EOF" ELSE input[i]
      slash == c \in {"/", "\\"}
      next == IF buffer = <<".", ".">>
                THEN (IF slash THEN shorten(path) ELSE Append(shorten(path), <<>>))
              ELSE IF buffer = <<".">>
                THEN (IF slash THEN path ELSE Append(path, <<>>))
              ELSE Append(path, buffer)
  IN IF c \in {"EOF", "/", "\\", "?", "#"}
       THEN IF slash THEN pathState(input, i + 1, <<>>, next)
                     ELSE [path |-> next, at |-> i]
       ELSE pathState(input, i + 1, Append(buffer, c), path)

\* The URL parser's host and port states on the authority's characters: the
\* host is not empty and the port holds digits only.
hostParses(authority) ==
  LET k == indexOfAny(authority, {":"}, 1)
  IN /\ k > 1
     /\ k >= Len(authority)

\* The URL parser's "special authority ignore slashes" state from position i.
RECURSIVE skipSlashes(_, _)
skipSlashes(value, i) ==
  IF i <= Len(value) /\ value[i] \in {"/", "\\"} THEN skipSlashes(value, i + 1) ELSE i

\* new URL(value, base): [failure, path, query, fragment].
parseURL(value, base) ==
  LET failure == [failure |-> TRUE, path |-> <<>>, query |-> <<>>, fragment |-> <<>>]
      \* query and fragment from position i, where value[i] is "?", "#" or
      \* the end
      done(p, i) == [failure |-> FALSE, path |-> p,
                     query |-> IF i <= Len(value) /\ value[i] = "?"
                                 THEN SubSeq(value, i + 1, indexOfAny(value, {"#"}, i) - 1)
                                 ELSE <<>>,
                     fragment |-> IF indexOfAny(value, {"#"}, i) <= Len(value)
                                    THEN SubSeq(value, indexOfAny(value, {"#"}, i) + 1,
                                                Len(value))
                                    ELSE <<>>]
      c1 == IF Len(value) >= 1 THEN value[1] ELSE "EOF"
      c2 == IF Len(value) >= 2 THEN value[2] ELSE "EOF"
  IN IF c1 \in {"/", "\\"}
       THEN IF c2 \in {"/", "\\"}
              THEN \* special authority ignore slashes state, authority, host
                   LET from == skipSlashes(value, 3)
                       to == indexOfAny(value, {"/", "\\", "?", "#"}, from)
                       \* path start state consumes one slash
                       start == IF to <= Len(value) /\ value[to] \in {"/", "\\"}
                                  THEN to + 1 ELSE to
                       r == pathState(value, start, <<>>, <<>>)
                   IN IF hostParses(SubSeq(value, from, to - 1))
                        THEN done(r.path, r.at) ELSE failure
              ELSE \* relative slash state, then the path state
                   LET r == pathState(value, 2, <<>>, <<>>)
                   IN done(r.path, r.at)
     ELSE IF c1 = "EOF"
       THEN [failure |-> FALSE, path |-> base.path, query |-> base.query,
             fragment |-> <<>>]
     ELSE IF c1 = "?"
       THEN done(base.path, 1)
     ELSE IF c1 = "#"
       THEN [failure |-> FALSE, path |-> base.path, query |-> base.query,
             fragment |-> SubSeq(value, 2, Len(value))]
     ELSE LET r == pathState(value, 1, <<>>, shorten(base.path))
          IN done(r.path, r.at)

\* const baseUrl = new URL(entryPoint, window.location.origin), line 620.
BaseUrl == parseURL(EntryPoint, [path |-> <<>>, query |-> <<>>])

RECURSIVE joinPath(_)
joinPath(path) ==
  IF path = <<>> THEN <<>> ELSE <<"/">> \o Head(path) \o joinPath(Tail(path))

\* resolveUrl, lines 264-270: [threw, value], threw when `new URL` throws;
\* the value is made of the pathname, search and hash getters.
resolveUrl(value, baseUrl) ==
  IF value = <<>> \/ startsWith(value, <<"#">>) \/ isExternal(value)
    THEN [threw |-> FALSE, value |-> value]
    ELSE LET absolute == parseURL(value, baseUrl)
         IN IF absolute.failure
              THEN [threw |-> TRUE, value |-> <<>>]
              ELSE [threw |-> FALSE,
                    value |-> joinPath(absolute.path)
                                \o (IF absolute.query = <<>>
                                      THEN <<>> ELSE <<"?">> \o absolute.query)
                                \o (IF absolute.fragment = <<>>
                                      THEN <<>> ELSE <<"#">> \o absolute.fragment)]

\* String.prototype.split(','): the pieces between the commas.
RECURSIVE split(_, _)
split(value, separator) ==
  LET k == indexOfAny(value, {separator}, 1)
  IN IF k > Len(value) THEN <<value>>
     ELSE <<SubSeq(value, 1, k - 1)>> \o split(SubSeq(value, k + 1, Len(value)), separator)

\* String.prototype.trim.
RECURSIVE trim(_)
trim(value) ==
  IF value = <<>> THEN value
  ELSE IF Head(value) = " " THEN trim(Tail(value))
  ELSE IF value[Len(value)] = " " THEN trim(SubSeq(value, 1, Len(value) - 1))
  ELSE value

\* The pieces of a trimmed string between its runs of white space.
RECURSIVE pieces(_)
pieces(value) ==
  LET k == indexOfAny(value, {" "}, 1)
  IN IF k > Len(value) THEN <<value>>
     ELSE <<SubSeq(value, 1, k - 1)>> \o pieces(trim(SubSeq(value, k, Len(value))))

\* String.prototype.split(/\s+/, limit) of a trimmed string: the first limit
\* pieces.
splitWhitespace(value, limit) ==
  LET all == pieces(value)
  IN IF Len(all) > limit THEN SubSeq(all, 1, limit) ELSE all

\* Array.prototype.join(', ').
RECURSIVE join(_, _)
join(items, separator) ==
  IF items = <<>> THEN <<>>
  ELSE IF Len(items) = 1 THEN items[1]
  ELSE items[1] \o separator \o join(Tail(items), separator)

\* Array.prototype.filter(Boolean) on strings.
RECURSIVE filterBoolean(_)
filterBoolean(items) ==
  IF items = <<>> THEN <<>>
  ELSE IF Head(items) = <<>> THEN filterBoolean(Tail(items))
  ELSE <<Head(items)>> \o filterBoolean(Tail(items))

\* The map callback of normaliseSrcSet, lines 275-280.
mapCandidate(candidate, baseUrl) ==
  LET parts == splitWhitespace(trim(candidate), 2)
      url == resolveUrl(parts[1], baseUrl)
  IN IF parts[1] = <<>> THEN [threw |-> FALSE, value |-> <<>>]
     ELSE IF url.threw THEN url
     ELSE IF Len(parts) >= 2 /\ parts[2] # <<>>
       THEN [threw |-> FALSE, value |-> url.value \o <<" ">> \o parts[2]]
     ELSE url

\* normaliseSrcSet, lines 272-282.
normaliseSrcSet(value, baseUrl) ==
  LET candidates == split(value, ",")
      mapped == [i \in DOMAIN candidates |-> mapCandidate(candidates[i], baseUrl)]
  IN IF \E i \in DOMAIN mapped : mapped[i].threw
       THEN [threw |-> TRUE, value |-> <<>>]
       ELSE [threw |-> FALSE,
             value |-> join(filterBoolean([i \in DOMAIN mapped |-> mapped[i].value]),
                            <<",", " ">>)]

\* Element.setAttribute on the attributes of an element, a function from the
\* attribute names to their values.
setAttribute(attributes, name, value) ==
  [n \in DOMAIN attributes \cup {name} |-> IF n = name THEN value ELSE attributes[n]]

\* The attributes the first pass skips, line 286.
SkippedNames == {"src", "href", "xlink:href", "srcset"}

\* attributeMap, lines 292-301.
attributeMap ==
  ("IMG" :> <<"src", "srcset">>) @@ ("SOURCE" :> <<"src", "srcset">>) @@
  ("SCRIPT" :> <<"src">>) @@ ("LINK" :> <<"href">>) @@ ("A" :> <<"href">>) @@
  ("USE" :> <<"href", "xlink:href">>) @@ ("VIDEO" :> <<"poster">>) @@
  ("AUDIO" :> <<"src">>)

\* The first pass of transferAttributes, lines 285-290.
copyAttributes(source) ==
  [n \in DOMAIN source.attributes \ SkippedNames |-> source.attributes[n]]

\* candidates.forEach, lines 306-315, from the i-th candidate on.
RECURSIVE rewriteCandidates(_, _, _, _, _)
rewriteCandidates(attributes, source, candidates, i, baseUrl) ==
  IF i > Len(candidates) THEN [threw |-> FALSE, value |-> attributes]
  ELSE LET attribute == candidates[i]
           rawValue == IF attribute \in DOMAIN source.attributes
                         THEN source.attributes[attribute] ELSE <<>>
           rewritten == IF attribute = "srcset" THEN normaliseSrcSet(rawValue, baseUrl)
                                              ELSE resolveUrl(rawValue, baseUrl)
       IN IF rawValue = <<>>
            THEN rewriteCandidates(attributes, source, candidates, i + 1, baseUrl)
          ELSE IF rewritten.threw
            THEN [threw |-> TRUE, value |-> attributes]
          ELSE rewriteCandidates(setAttribute(attributes, attribute, rewritten.value),
                                 source, candidates, i + 1, baseUrl)

\* transferAttributes(target, source, baseUrl), lines 284-316, on a target
\* without attributes: the attributes of the target afterwards.
transferAttributes(source, baseUrl) ==
  IF source.tagName \notin DOMAIN attributeMap
    THEN [threw |-> FALSE, value |-> copyAttributes(source)]
    ELSE rewriteCandidates(copyAttributes(source), source, attributeMap[source.tagName],
                           1, baseUrl)

\* Source elements: tagName is upper case for an HTML element and lower case
\* for an SVG one; each attribute is absent, empty or a relative URL.
Elements ==
  {[tagName |-> t, attributes |-> f] :
     t \in {"IMG", "A", "VIDEO", "IFRAME", "use"},
     f \in UNION {[S -> {<<>>, <<"a">>}] :
                    S \in SUBSET {"class", "src", "href", "xlink:href", "srcset", "poster"}}}

\* The other components at rest while a helper is applied.
SandboxInit ==
  /\ ticket = 0
  /\ activeController = 0
  /\ phase = "setup"
  /\ shadow = NoShadow
  /\ res = <<>>
  /\ loads = [t \in Tickets |-> NoLoad]
  /\ events = <<>>

\* A function about to be applied to arg; out is what it returned or threw.
Call(fn, arg) == [fn |-> fn, arg |-> arg, done |-> FALSE, out |-> <<>>]

UrlInit ==
  /\ SandboxInit
  /\ app = NoApp
  /\ sizer = NoSizer
  /\ applied \in {Call("resolveUrl", v) : v \in Strings({"a", ".", "/", "\\", ":", "#", "?"}, MaxUrlLen)}
               \cup {Call("normaliseSrcSet", v) : v \in Strings({"a", "/", "\\", " ", ","}, MaxSrcSetLen)}
               \cup {Call("transferAttributes", e) : e \in Elements}

ApplyResolveUrl ==
  /\ applied.fn = "resolveUrl" /\ ~applied.done
  /\ applied' = [applied EXCEPT !.done = TRUE, !.out = resolveUrl(applied.arg, BaseUrl)]
  /\ UNCHANGED <<sandboxVars, app, sizer>>

ApplyNormaliseSrcSet ==
  /\ applied.fn = "normaliseSrcSet" /\ ~applied.done
  /\ applied' = [applied EXCEPT !.done = TRUE, !.out = normaliseSrcSet(applied.arg, BaseUrl)]
  /\ UNCHANGED <<sandboxVars, app, sizer>>

ApplyTransferAttributes ==
  /\ applied.fn = "transferAttributes" /\ ~applied.done
  /\ applied' = [applied EXCEPT !.done = TRUE, !.out = transferAttributes(applied.arg, BaseUrl)]
  /\ UNCHANGED <<sandboxVars, app, sizer>>

UrlNext == ApplyResolveUrl \/ ApplyNormaliseSrcSet \/ ApplyTransferAttributes

UrlSpec == UrlInit /\ [][UrlNext]_vars

\* ====================================================================
\* The host application (the App script in ProjectSandbox.vue, lines
\* 787-1010) around one <ProjectSandbox :key="selectedProject.slug">: the
\* sandbox variables are those of the instance currently mounted.
\* ====================================================================

\* activeSandbox.ticket = null, line 813.
NullTicket == -1

\* projects.value once the manifest is loaded (line 963): two projects with
\* an entry point, and one without that repeats a slug.
Catalog ==
  << [slug |-> "a", entryPoint |-> "u"], [slug |-> "b", entryPoint |-> "u"],
     [slug |-> "a", entryPoint |-> ""] >>

\* Lines 795-814 after setup: no project, the immediate run of the
\* filteredProjects watcher has left the state idle.  filtered holds the
\* indices of filteredProjects, mounted the descriptor the sandbox instance
\* was last given (<<>>: no instance).  History: op is the last operation,
\* with the payload when it is a call of a listener; undisturbed says that the
\* last click or list change selected a project (lines 864-870 ran) and that
\* there was no click or list change since.
HostIdle ==
  [filtered |-> {}, selectedSlug |-> "", isFullscreen |-> FALSE, status |-> "idle",
   errorMessage |-> "", activeSandbox |-> [slug |-> "", ticket |-> NullTicket],
   mounted |-> <<>>, op |-> <<"setup">>, undisturbed |-> FALSE]

\* selectedProject, lines 844-846: the index of the first filtered project
\* with the selected slug, 0 for null.
selectedProject(a) ==
  IF \E i \in a.filtered : Catalog[i].slug = a.selectedSlug
    THEN CHOOSE i \in a.filtered :
           /\ Catalog[i].slug = a.selectedSlug
           /\ \A j \in a.filtered : Catalog[j].slug = a.selectedSlug => i <= j
    ELSE 0

\* The guard of handleProjectSelection, line 860.
neverAlreadySelected(a, project) == FALSE

alreadySelected(a, project) == project.slug = a.selectedSlug

\* handleProjectSelection, lines 859-871.
handleProjectSelection(a, project) ==
  IF alreadySelected(a, project) THEN a
  ELSE [a EXCEPT !.isFullscreen = FALSE,
                 !.activeSandbox = [slug |-> project.slug, ticket |-> NullTicket],
                 !.selectedSlug = project.slug,
                 !.status = "loading",
                 !.errorMessage = ""]

\* isPayloadForCurrentProject, lines 877-881 (a payload of the sandbox always
\* has a slug).
anyPayloadIsCurrent(a, payload) == TRUE

isPayloadForCurrentProject(a, payload) ==
  payload.slug # "" /\ payload.slug = a.selectedSlug

\* handleSandboxLoading, lines 883-892.
handleSandboxLoading(a, payload) ==
  IF ~isPayloadForCurrentProject(a, payload) THEN a
  ELSE [a EXCEPT !.activeSandbox = [slug |-> payload.slug, ticket |-> payload.ticket],
                 !.status = "loading",
                 !.errorMessage = ""]

\* The ticket test of lines 900 and 914.
\* (A test that takes every ticket for another request's.)
ticketAlwaysMismatch(a, payload) == TRUE

ticketMismatch(a, payload) ==
  /\ a.activeSandbox.ticket # NullTicket
  /\ payload.ticket # 0
  /\ payload.ticket # a.activeSandbox.ticket

\* handleSandboxLoaded, lines 894-906.
handleSandboxLoaded(a, payload) ==
  IF ~isPayloadForCurrentProject(a, payload) \/ ticketMismatch(a, payload) THEN a
  ELSE [a EXCEPT !.status = "ready", !.errorMessage = ""]

\* handleSandboxError, lines 908-927.
handleSandboxError(a, payload) ==
  IF ~isPayloadForCurrentProject(a, payload) \/ ticketMismatch(a, payload) THEN a
  ELSE [a EXCEPT !.status = "error", !.errorMessage = payload.extra]

\* The listener of the template, lines 760-762, for one emitted event.
listener(a, event) ==
  IF event.type = "loading" THEN handleSandboxLoading(a, event)
  ELSE IF event.type = "loaded" THEN handleSandboxLoaded(a, event)
  ELSE handleSandboxError(a, event)

\* emit calls the listeners at once: the events from the i-th on, in order.
RECURSIVE deliver(_, _, _)
deliver(a, evs, i) ==
  IF i > Len(evs) THEN a ELSE deliver(listener(a, evs[i]), evs, i + 1)

\* The watcher of filteredProjects, lines 929-948, on the new list.
\* (A watcher that only takes note of the new list.)
filteredProjectsNoted(a, next) == [a EXCEPT !.filtered = next]

filteredProjectsChanged(a, next) ==
  IF next = {}
    THEN [a EXCEPT !.filtered = next, !.selectedSlug = "", !.isFullscreen = FALSE,
                   !.activeSandbox = [slug |-> "", ticket |-> NullTicket],
                   !.status = "idle", !.errorMessage = ""]
  ELSE IF \E i \in next : Catalog[i].slug = a.selectedSlug
    THEN [a EXCEPT !.filtered = next]
  ELSE handleProjectSelection([a EXCEPT !.filtered = next],
                              Catalog[CHOOSE i \in next : \A j \in next : i <= j])

\* The descriptor the template hands to the sandbox, <<>> without a project.
descriptorOf(a) ==
  IF selectedProject(a) = 0 THEN <<>>
  ELSE <<Catalog[selectedProject(a)].slug, Catalog[selectedProject(a)].entryPoint>>

\* A sandbox instance that is created and has not run its setup.
SandboxFresh ==
  /\ ticket' = 0
  /\ activeController' = 0
  /\ phase' = "setup"
  /\ shadow' = NoShadow
  /\ res' = <<>>
  /\ loads' = [t \in Tickets |-> NoLoad]
  /\ events' = <<>>

\* The render after the host state became a (lines 757-763): v-if removes the
\* instance, a new key replaces it by a fresh one, a new entry point under the
\* same key runs the instance's descriptor watch, whose events the listeners
\* handle at once.
Render(a) ==
  IF descriptorOf(a) = <<>> \/ app.mounted = <<>> \/ descriptorOf(a)[1] # app.mounted[1]
    THEN /\ SandboxFresh
         /\ app' = [a EXCEPT !.mounted = <<>>]
  ELSE IF descriptorOf(a) # app.mounted
    THEN /\ Watch(descriptorOf(a)[1], descriptorOf(a)[2], "none", 1)
         /\ app' = deliver([a EXCEPT !.mounted = descriptorOf(a)], events', Len(events) + 1)
  ELSE /\ UNCHANGED sandboxVars
       /\ app' = a

\* A fresh instance waits for its setup.
PendingMount == phase = "setup" /\ descriptorOf(app) # <<>>

HostInit ==
  /\ SandboxInit
  /\ applied = NoCall
  /\ sizer = NoSizer
  /\ app = HostIdle

\* A click on the i-th project of the sidebar.
SelectProject(i) ==
  /\ ~PendingMount
  /\ i \in app.filtered
  /\ Render([handleProjectSelection(app, Catalog[i])
               EXCEPT !.op = <<"select", Catalog[i].slug>>,
                      !.undisturbed = ~alreadySelected(app, Catalog[i])])
  /\ UNCHANGED <<applied, sizer>>

\* The search term or the manifest changed the filtered list.
FilteredChanged(next) ==
  /\ ~PendingMount
  /\ next # app.filtered
  /\ Render([filteredProjectsChanged(app, next)
               EXCEPT !.op = <<"filter">>,
                      !.undisturbed = (next # {} /\ \A i \in next :
                                         ~alreadySelected(app, Catalog[i]))])
  /\ UNCHANGED <<applied, sizer>>

\* The setup of the fresh instance: the immediate run of its descriptor watch.
MountSandbox ==
  /\ PendingMount
  /\ Setup(descriptorOf(app)[1], descriptorOf(app)[2])
  /\ app' = deliver([app EXCEPT !.mounted = descriptorOf(app), !.op = <<"mount">>],
                    events', Len(events) + 1)
  /\ UNCHANGED <<applied, sizer>>

\* The instance's entry fetch settles, its injection resumes.
SandboxFetchDone(t, o) ==
  /\ FetchDone(t, o)
  /\ app' = deliver([app EXCEPT !.op = <<"fetch">>], events', Len(events) + 1)
  /\ UNCHANGED <<applied, sizer>>

SandboxContinue(t, ok) ==
  /\ Continue(t, ok)
  /\ app' = deliver([app EXCEPT !.op = <<"continue">>], events', Len(events) + 1)
  /\ UNCHANGED <<applied, sizer>>

\* A listener is called with the payload of another request than the
\* instance's latest: any slug, any ticket.
ListenerCalled(type, slug, ticketValue) ==
  /\ ~PendingMount
  /\ app' = listener([app EXCEPT !.op = <<"listener", type, slug, ticketValue>>],
                     [type |-> type, slug |-> slug, ticket |-> ticketValue,
                      extra |-> "stale"])
  /\ UNCHANGED <<sandboxVars, applied, sizer>>

HostNext ==
  \/ \E i \in DOMAIN Catalog : SelectProject(i)
  \/ \E next \in SUBSET DOMAIN Catalog : FilteredChanged(next)
  \/ MountSandbox
  \/ \E t \in Tickets, o \in FetchOutcomes : SandboxFetchDone(t, o)
  \/ \E t \in Tickets, ok \in BOOLEAN : SandboxContinue(t, ok)
  \/ \E type \in {"loading", "loaded", "error"}, slug \in {"a", "b"}, t \in Tickets :
       ListenerCalled(type, slug, t)

HostSpec == HostInit /\ [][HostNext]_vars

\* The listeners as the template wires them (lines 760-762): called by the
\* emits of the mounted instance only.  The setup of a created instance, the
\* settling of a fetch and the continuation after it are not postponed for
\* ever.
HostLiveNext ==
  \/ \E i \in DOMAIN Catalog : SelectProject(i)
  \/ \E next \in SUBSET DOMAIN Catalog : FilteredChanged(next)
  \/ MountSandbox
  \/ \E t \in Tickets, o \in FetchOutcomes : SandboxFetchDone(t, o)
  \/ \E t \in Tickets, ok \in BOOLEAN : SandboxContinue(t, ok)

HostFairness ==
  /\ WF_vars(MountSandbox)
  /\ \A t \in Tickets : WF_vars(\E o \in FetchOutcomes : SandboxFetchDone(t, o))
  /\ \A t \in Tickets : WF_vars(\E ok \in BOOLEAN : SandboxContinue(t, ok))

HostFairSpec == HostInit /\ [][HostLiveNext]_vars /\ HostFairness

\* ====================================================================
\* The project-asset-pipeline plugin of src/vite.config.js: the dev-server
\* middleware (lines 193-235) with pathWithinProjects (66-72), and
\* loadProjectManifest (146-184).  Paths are sequences of characters on a
\* POSIX file system.
\* ====================================================================

\* Longest request path after /projects/, most project directories.
MaxPathLen == 5
MaxProjects == 2

\* PROJECT_DIRECTORY, line 7: the directory p of the repository root /r.
PROJECT_DIRECTORY == <<"/", "r", "/", "p">>

\* The files of the machine: one in the projects directory, one beside that
\* directory whose name begins like the directory's, one elsewhere; and its
\* directories.
Files == { <<"/", "r", "/", "p", "/", "p">>, <<"/", "r", "/", "p", "p">>, <<"/", "p">> }
Directories == { <<"/">>, <<"/", "r">>, <<"/", "r", "/", "p">> }

\* '/projects/', line 195, and the rest of a request URL, made of a letter,
\* the dot, the slash, and the escapes of the last two.
ProjectsRoute == <<"/", "projects", "/">>
Requests == {ProjectsRoute \o s : s \in Strings({"p", ".", "/", "%2E", "%2F"}, MaxPathLen)}

\* decodeURIComponent, line 212.
decodeURIComponent(value) ==
  [i \in DOMAIN value |-> IF value[i] = "%2E" THEN "."
                          ELSE IF value[i] = "%2F" THEN "/"
                          ELSE value[i]]

\* path.resolve: "." and "" segments are dropped and ".." removes the segment
\* before it, from the i-th segment on.
RECURSIVE normalizeSegments(_, _, _)
normalizeSegments(segments, i, kept) ==
  IF i > Len(segments) THEN kept
  ELSE IF segments[i] = <<>> \/ segments[i] = <<".">>
    THEN normalizeSegments(segments, i + 1, kept)
  ELSE IF segments[i] = <<".", ".">>
    THEN normalizeSegments(segments, i + 1, shorten(kept))
  ELSE normalizeSegments(segments, i + 1, Append(kept, segments[i]))

\* path.resolve(from, to) for an absolute from.
pathResolve(from, to) ==
  IF normalizeSegments(split(IF startsWith(to, <<"/">>) THEN to ELSE from \o <<"/">> \o to,
                             "/"), 1, <<>>) = <<>>
    THEN <<"/">>
    ELSE joinPath(normalizeSegments(
           split(IF startsWith(to, <<"/">>) THEN to ELSE from \o <<"/">> \o to, "/"),
           1, <<>>))

\* The test of pathWithinProjects, line 68.
withinProjects(resolved) == startsWith(resolved, PROJECT_DIRECTORY)

\* The try block of the middleware, lines 214-234, on the resolved path:
\* touched is the path handed to fs.stat, <<>> when there was none.
serveFile(filePath) ==
  IF ~withinProjects(filePath)
    THEN [status |-> 403, body |-> "Forbidden.", touched |-> <<>>]
  ELSE IF filePath \in Directories
    THEN [status |-> 403, body |-> "Directory access is not permitted.",
          touched |-> filePath]
  ELSE IF filePath \in Files
    THEN [status |-> 200, body |-> "file", touched |-> filePath]
  ELSE [status |-> 0, body |-> "next", touched |-> filePath]

\* The middleware, lines 193-235, for a request URL without its query.
middleware(rawUrl) ==
  IF ~startsWith(rawUrl, ProjectsRoute)
    THEN [status |-> 0, body |-> "next", touched |-> <<>>]
  ELSE IF rawUrl = ProjectsRoute \o <<"manifest.json">>
    THEN [status |-> 200, body |-> "manifest", touched |-> <<>>]
  ELSE serveFile(pathResolve(PROJECT_DIRECTORY,
                             decodeURIComponent(SubSeq(rawUrl, 4, Len(rawUrl)))))

\* Project directories, in the order of fs.readdir, and what a config may
\* hold: slug and name are strings ("" when absent or blank), order is a
\* number or not one.
DirectoryNames == {<<"a", "b", "c", "d">>[i] : i \in 1..MaxProjects}
NoConfig == [found |-> FALSE, slug |-> "", name |-> "",
             order |-> [type |-> "undefined", value |-> 0]]
Configs ==
  {NoConfig} \cup
  {[found |-> TRUE, slug |-> s, name |-> n, order |-> o] :
     s \in {"", "b"}, n \in {"", "a"},
     o \in {[type |-> "undefined", value |-> 0], [type |-> "number", value |-> 1],
            [type |-> "number", value |-> 2]}}

Listings ==
  UNION {{l \in [1..k -> [name : DirectoryNames, config : Configs]] :
            \A i, j \in 1..k : i # j => l[i].name # l[j].name} : k \in 0..MaxProjects}

\* toDisplayName, lines 25-30, on a one-letter slug.
toDisplayName(value) ==
  CASE value = "a" -> "A" [] value = "b" -> "B" [] value = "c" -> "C" [] OTHER -> "D"

\* ensureString, lines 32-38, on a trimmed string.
ensureString(value, fallback) == IF value # "" THEN value ELSE fallback

\* ensureOrder, lines 49-50.
orderZeroWhenMissing(value) == [type |-> "number", value |-> 0]

ensureOrder(value) ==
  IF value.type = "number" THEN value ELSE [type |-> "Infinity", value |-> 0]

\* resolveEntryPoint, lines 52-61, for a config without entry.
resolveEntryPoint(slug, entry) == <<"/projects/", slug, "/", ensureString(entry, "index.html")>>

\* a.order - b.order: a number, an infinity, or NaN.
minus(a, b) ==
  IF a.type = "Infinity"
    THEN IF b.type = "Infinity" THEN [type |-> "NaN", value |-> 0]
                                ELSE [type |-> "Infinity", value |-> 0]
  ELSE IF b.type = "Infinity" THEN [type |-> "-Infinity", value |-> 0]
  ELSE [type |-> "number", value |-> a.value - b.value]

\* String.prototype.localeCompare on the names in use: lower case sorts
\* before upper case of the same letter.
Collation == <<"a", "A", "b", "B", "c", "C", "d", "D">>
rank(name) == CHOOSE i \in DOMAIN Collation : Collation[i] = name

\* The comparator of line 182: negative, zero or positive.
compare(a, b) ==
  IF minus(a.order, b.order).type = "Infinity" THEN 1
  ELSE IF minus(a.order, b.order).type = "-Infinity" THEN -1
  ELSE IF minus(a.order, b.order).type = "number" /\ minus(a.order, b.order).value # 0
    THEN minus(a.order, b.order).value
  ELSE rank(a.name) - rank(b.name)

\* Array.prototype.sort (stable): item inserted into a sorted array.
RECURSIVE insert(_, _)
insert(sorted, item) ==
  IF sorted = <<>> THEN <<item>>
  ELSE IF compare(sorted[Len(sorted)], item) <= 0 THEN Append(sorted, item)
  ELSE Append(insert(SubSeq(sorted, 1, Len(sorted) - 1), item), sorted[Len(sorted)])

RECURSIVE sort(_, _, _)
sort(items, i, sorted) ==
  IF i > Len(items) THEN sorted ELSE sort(items, i + 1, insert(sorted, items[i]))

\* The slug of line 165.
slugOf(slugFromDir, config) ==
  IF ensureString(config.slug, slugFromDir) # ""
    THEN ensureString(config.slug, slugFromDir) ELSE slugFromDir

\* The loop of loadProjectManifest, lines 152-179, from the i-th entry on.
RECURSIVE collect(_, _, _)
collect(entries, i, manifest) ==
  IF i > Len(entries) THEN manifest
  ELSE IF ~entries[i].config.found THEN collect(entries, i + 1, manifest)
  ELSE collect(entries, i + 1,
         Append(manifest,
           [slug |-> slugOf(entries[i].name, entries[i].config),
            name |-> ensureString(entries[i].config.name,
                                  toDisplayName(slugOf(entries[i].name, entries[i].config))),
            entryPoint |-> resolveEntryPoint(entries[i].name, ""),
            order |-> ensureOrder(entries[i].config.order)]))

\* .map(({ order, ...rest }) => rest), line 183.
withoutOrder(manifest) ==
  [i \in DOMAIN manifest |->
     [slug |-> manifest[i].slug, name |-> manifest[i].name,
      entryPoint |-> manifest[i].entryPoint]]

\* loadProjectManifest, lines 146-184.
loadProjectManifest(entries) == withoutOrder(sort(collect(entries, 1, <<>>), 1, <<>>))

ViteInit ==
  /\ SandboxInit
  /\ app = NoApp
  /\ sizer = NoSizer
  /\ applied \in {Call("middleware", r) : r \in Requests}
               \cup {Call("loadProjectManifest", l) : l \in Listings}

ApplyMiddleware ==
  /\ applied.fn = "middleware" /\ ~applied.done
  /\ applied' = [applied EXCEPT !.done = TRUE, !.out = middleware(applied.arg)]
  /\ UNCHANGED <<sandboxVars, app, sizer>>

ApplyLoadProjectManifest ==
  /\ applied.fn = "loadProjectManifest" /\ ~applied.done
  /\ applied' = [applied EXCEPT !.done = TRUE, !.out = loadProjectManifest(applied.arg)]
  /\ UNCHANGED <<sandboxVars, app, sizer>>

ViteNext == ApplyMiddleware \/ ApplyLoadProjectManifest

ViteSpec == ViteInit /\ [][ViteNext]_vars

\* ------------------------------------------------- the DPR canvas sizer
\* Breadcrumbs.vue, lines 136-259. The canvases of the shadow root, the
\* dprSizer object and the records the MutationObserver has queued.
MaxRecords == 2

Canvases == {"c1", "c2"}

\* getAttribute returns null for an attribute the element does not have.
Absent == -1

\* The width and height properties of a canvas reflect its attributes,
\* with these defaults when the attribute is absent.
DefaultWidth == 300

DefaultHeight == 150

\* Layout boxes (getBoundingClientRect) and window.devicePixelRatio in
\* hundredths, 0 standing for an undefined ratio.
Rects == {[width |-> 0, height |-> 0], [width |-> 300, height |-> 150]}

Ratios == {0, 150}

Max(a, b) == IF a >= b THEN a ELSE b

\* Math.round of a quotient n / d of naturals: halves round up.
round(n, d) == (2 * n + d) \div (2 * d)

\* Line 141, in hundredths.
devicePixels(ratio) == Max(100, IF ratio = 0 THEN 100 ELSE ratio)

\* Lines 145 and 146.
setWidth(canvas, w) ==
  IF (IF canvas.width = Absent THEN DefaultWidth ELSE canvas.width) # w
    THEN [canvas EXCEPT !.width = w]
    ELSE canvas

setHeight(canvas, h) ==
  IF (IF canvas.height = Absent THEN DefaultHeight ELSE canvas.height) # h
    THEN [canvas EXCEPT !.height = h]
    ELSE canvas

\* updateCanvasResolution, lines 139-147.
updateCanvasResolution(canvas, ratio, rect) ==
  setHeight(setWidth(canvas, Max(1, round(rect.width * devicePixels(ratio), 100))),
            Max(1, round(rect.height * devicePixels(ratio), 100)))

\* refreshAll, lines 166-168: the canvases querySelectorAll finds are the
\* connected ones.
refreshAll(canvases, ratio, rects) ==
  [c \in Canvases |->
     IF canvases[c].isConnected
     THEN updateCanvasResolution(canvases[c], ratio, rects[c])
     ELSE canvases[c]]

\* captureOriginal, lines 156-162.
captureOriginal(originals, canvases, c) ==
  IF c \in DOMAIN originals
  THEN originals
  ELSE originals @@ (c :> [width |-> canvases[c].width, height |-> canvases[c].height])

\* The callback of the MutationObserver, lines 176-205, on the queued
\* records: the entries it leaves.
RECURSIVE mutated(_, _, _, _)
mutated(originals, canvases, records, i) ==
  IF i > Len(records)
  THEN originals
  ELSE mutated(IF records[i][1] = "added"
               THEN captureOriginal(originals, canvases, records[i][2])
               ELSE [k \in DOMAIN originals \ {records[i][2]} |-> originals[k]],
               canvases, records, i + 1)

\* The restoring loop of disableDprSizer, lines 238-244.
restore(originals, canvases) ==
  [c \in Canvases |->
     IF c \in DOMAIN originals /\ canvases[c].isConnected
     THEN [canvases[c] EXCEPT !.width = originals[c].width,
                              !.height = originals[c].height]
     ELSE canvases[c]]

\* The entries captured from the canvases found at line 214.
captureAll(canvases) ==
  [c \in {k \in Canvases : canvases[k].isConnected} |->
     [width |-> canvases[c].width, height |-> canvases[c].height]]

\* first remembers, for the time the sizer is enabled, what was captured
\* of a canvas the first time it was tracked.
remembered(first, originals) ==
  [c \in DOMAIN first \cup DOMAIN originals |->
     IF c \in DOMAIN first THEN first[c] ELSE originals[c]]

SizerInit ==
  /\ SandboxInit
  /\ applied = NoCall
  /\ app = NoApp
  /\ sizer \in {[enabled |-> FALSE, originals |-> <<>>, first |-> <<>>,
                 records |-> <<>>, canvases |-> cs] :
                  cs \in [Canvases -> [isConnected : BOOLEAN,
                                       width : {Absent, 2},
                                       height : {Absent, 2}]]}

\* enableDprSizer, lines 149-223, with the shadow root present.
EnableDprSizer(ratio, rects) ==
  /\ ~sizer.enabled
  /\ sizer' = [sizer EXCEPT !.enabled = TRUE,
                            !.originals = captureAll(sizer.canvases),
                            !.first = captureAll(sizer.canvases),
                            !.records = <<>>,
                            !.canvases = refreshAll(sizer.canvases, ratio, rects)]
  /\ UNCHANGED <<sandboxVars, applied, app>>

\* disableDprSizer, lines 225-247.
DisableDprSizer ==
  /\ sizer.enabled
  /\ sizer' = [sizer EXCEPT !.enabled = FALSE,
                            !.originals = <<>>,
                            !.first = <<>>,
                            !.records = <<>>,
                            !.canvases = restore(sizer.originals, sizer.canvases)]
  /\ UNCHANGED <<sandboxVars, applied, app>>

\* A script of the mini-app inserts a canvas into the shadow root; the
\* observer of line 208 queues a record while it is connected.
AppendCanvas(c) ==
  /\ ~sizer.canvases[c].isConnected
  /\ sizer.enabled => Len(sizer.records) < MaxRecords
  /\ sizer' = [sizer EXCEPT !.canvases[c].isConnected = TRUE,
                            !.records = IF sizer.enabled
                                        THEN Append(@, <<"added", c>>)
                                        ELSE @]
  /\ UNCHANGED <<sandboxVars, applied, app>>

\* A script of the mini-app removes a canvas from the shadow root.
RemoveCanvas(c) ==
  /\ sizer.canvases[c].isConnected
  /\ sizer.enabled => Len(sizer.records) < MaxRecords
  /\ sizer' = [sizer EXCEPT !.canvases[c].isConnected = FALSE,
                            !.records = IF sizer.enabled
                                        THEN Append(@, <<"removed", c>>)
                                        ELSE @]
  /\ UNCHANGED <<sandboxVars, applied, app>>

\* The MutationObserver callback, lines 176-207, runs on the queued records.
DeliverMutations(ratio, rects) ==
  /\ sizer.enabled
  /\ sizer.records # <<>>
  /\ sizer' = [sizer EXCEPT
                 !.originals = mutated(@, sizer.canvases, sizer.records, 1),
                 !.first = remembered(@, mutated(sizer.originals, sizer.canvases,
                                                 sizer.records, 1)),
                 !.records = <<>>,
                 !.canvases = IF \E i \in DOMAIN sizer.records :
                                    sizer.records[i][1] = "added"
                              THEN refreshAll(@, ratio, rects)
                              ELSE @]
  /\ UNCHANGED <<sandboxVars, applied, app>>

\* The ResizeObserver callback (line 171) or the window resize listener
\* (line 210); both run after the queued mutation records are delivered.
HandleResize(ratio, rects) ==
  /\ sizer.enabled
  /\ sizer.records = <<>>
  /\ sizer' = [sizer EXCEPT !.canvases = refreshAll(@, ratio, rects)]
  /\ UNCHANGED <<sandboxVars, applied, app>>

SizerNext ==
  \/ \E ratio \in Ratios, rects \in [Canvases -> Rects] : EnableDprSizer(ratio, rects)
  \/ DisableDprSizer
  \/ \E c \in Canvases : AppendCanvas(c)
  \/ \E c \in Canvases : RemoveCanvas(c)
  \/ \E ratio \in Ratios, rects \in [Canvases -> Rects] : DeliverMutations(ratio, rects)
  \/ \E ratio \in Ratios, rects \in [Canvases -> Rects] : HandleResize(ratio, rects)

SizerSpec == SizerInit /\ [][SizerNext]_vars

\* ---------------------------------------------------------------- claims
LastEvent == events[Len(events)]

\* Load t is resumed in this step: loadProject after its entry fetch, or
\* injectHtml/cloneNodeTree after an awaited clone or script fetch.
Resumes(t) ==
  /\ loads[t].pc \in {"fetch", "await"}
  /\ \/ loads'[t].pc # loads[t].pc
     \/ loads'[t].idx # loads[t].idx
     \/ loads'[t].inner # loads[t].inner

\* C1: a continuation of a load whose ticket has been superseded changes
\* nothing of the shadow root: not its children, not its ledger, not its
\* disposed flag.
C1_StaleContinuationLeavesRoot ==
  [][\A t \in Tickets : (Resumes(t) /\ ticket # t) => shadow' = shadow]_vars

\* C2: every event carries the ticket that is current when it is emitted, so
\* no event of a superseded ticket is emitted and the tickets of the events
\* never decrease.
C2_EventsCarryCurrentTicket ==
  \A i \in DOMAIN events :
    /\ events[i].ticket = events[i].at
    /\ \A j \in DOMAIN events : i < j => events[i].ticket <= events[j].ticket

\* A load was aborted by a newer load and ended silently; the newer load
\* emitted its 'loaded'.
C2_Witness ==
  /\ \E t \in Tickets : t < ticket /\ loads[t].aborted /\ loads[t].pc = "done"
  /\ Len(events) >= 2
  /\ LastEvent.type = "loaded"
  /\ LastEvent.ticket = ticket

Terminal(t) ==
  Cardinality({i \in DOMAIN events :
                 events[i].ticket = t /\ events[i].type \in {"loaded", "error"}})

\* C3: without unmount, once the descriptor changes have stopped and the
\* pending fetches have completed, exactly one terminal event (loaded or
\* error) carries the final ticket; no ticket ever gets two.
C3_ExactlyOneTerminal ==
  /\ [](\A t \in Tickets : Terminal(t) <= 1)
  /\ <>[](phase = "unmounted" \/ Terminal(ticket) = 1)

\* The first load was superseded before it ended and emitted no terminal
\* event; the final ticket has its one terminal event.
C3_Witness ==
  /\ phase = "mounted"
  /\ ticket >= 2
  /\ Terminal(1) = 0
  /\ loads[1].pc = "done"
  /\ Terminal(ticket) = 1

\* C4: every resource registered through the instrumented scope before a
\* teardown (a drain by clearShadow or by the next injectHtml) is released by
\* it, and its callback is not invoked again afterwards.
C4_TeardownReleasesAll ==
  \A r \in DOMAIN res :
    res[r].tornAt >= 0 => (~res[r].live /\ res[r].calls = res[r].tornAt)

\* A repeating timer that fired before the teardown.
C4_Witness ==
  \E r \in DOMAIN res :
    res[r].kind = "setInterval" /\ res[r].tornAt = 1 /\ res[r].handle = r

DrainedBy(t) == 1..loads[t].prepared

Owners ==
  {n[1] : n \in shadow.children}
    \cup {res[r].owner : r \in {x \in DOMAIN res : res[x].live}}

\* C8: the nodes attached to the root were all attached by one load and the
\* live resources registered through the scope belong to that same load.
C8_ExclusiveOwnership == Cardinality(Owners) <= 1

\* The watcher or the unmount hook runs in this step.
MintsTicket == ticket' = ticket + 1

\* C9: when a new descriptor is observed, whatever it is, a ticket is minted
\* and the entry-document fetch in flight is aborted in that same step.
C9_NewDescriptorAbortsFetch ==
  [][MintsTicket =>
       \A t \in Tickets : loads[t].pc = "fetch" => loads'[t].aborted]_vars

\* The watcher handles a descriptor without slug in this step.
NoSlugStep ==
  /\ Len(events') = Len(events) + 1
  /\ events'[Len(events')].extra = "missing slug"

\* C10 as claimed: handling a descriptor without slug leaves the root's
\* children, ledger and disposed flag as they were.
C10_NoSlugLeavesRoot ==
  [][NoSlugStep =>
       /\ shadow'.children = shadow.children
       /\ shadow'.ledger = shadow.ledger
       /\ shadow'.disposed = shadow.disposed]_vars

\* C10 as amended: handling a descriptor without slug emits the error for
\* the new ticket, starts no fetch and attaches nothing; an existing shadow
\* root is torn down (ledger drained and emptied, children removed, disposed
\* flag set), and without a shadow root nothing is touched.
C10_NoSlugClearsRoot ==
  [][NoSlugStep =>
       /\ events'[Len(events')].type = "error"
       /\ events'[Len(events')].ticket = ticket'
       /\ loads' = loads
       /\ activeController' = activeController
       /\ IF shadow.has
          THEN /\ shadow' = [has |-> TRUE, children |-> {}, ledger |-> <<>>,
                             disposed |-> TRUE]
               /\ \A r \in DOMAIN res : ~res'[r].live
          ELSE shadow' = shadow]_vars

\* A descriptor without slug was just handled on a root that held a
\* mini-app with a registered resource.
C10_Witness ==
  /\ Len(events) >= 1
  /\ LastEvent.extra = "missing slug"
  /\ LastEvent.ticket = ticket
  /\ shadow.has
  /\ \E r \in DOMAIN res : res[r].handle = r /\ res[r].disposedAt >= 0

\* C11: a descriptor without slug gets an error event with the newly minted
\* ticket and the missing-slug message, at once; that ticket has no loading
\* event and no fetch is ever started for it.
C11_NoSlugErrorsAtOnce ==
  \A i \in DOMAIN events :
    events[i].slug = "" =>
      /\ events[i].type = "error"
      /\ events[i].extra = "missing slug"
      /\ events[i].ticket = events[i].at
      /\ loads[events[i].ticket].pc = "none"
      /\ \A j \in DOMAIN events :
           events[j].ticket = events[i].ticket => j = i

\* A descriptor without slug arrived while a load was pending, and that load
\* got its document since.
C11_Witness ==
  \E i \in DOMAIN events :
    /\ events[i].slug = ""
    /\ events[i].ticket = 2
    /\ loads[1].pc = "done"
    /\ loads[1].status = 200

\* The watcher handles a descriptor with a slug and no entry URL in this step.
NoEntryStep ==
  /\ Len(events') = Len(events) + 1
  /\ events'[Len(events')].slug # ""
  /\ events'[Len(events')].entryPoint = ""

\* C12: a descriptor with a slug and no entry URL gets exactly one event, a
\* loaded event with the new ticket and the empty marker; no loading event
\* and no fetch exist for that ticket; and the step that handles it drains
\* and clears the root.
C12_NoEntryClearsAndLoads ==
  /\ [](\A i \in DOMAIN events :
          (events[i].slug # "" /\ events[i].entryPoint = "") =>
            /\ events[i].type = "loaded"
            /\ events[i].extra = "empty"
            /\ events[i].ticket = events[i].at
            /\ loads[events[i].ticket].pc = "none"
            /\ \A j \in DOMAIN events :
                 events[j].ticket = events[i].ticket => j = i)
  /\ [][NoEntryStep =>
          /\ ticket' = ticket + 1
          /\ events'[Len(events')].ticket = ticket'
          /\ loads' = loads
          /\ shadow.has =>
               /\ shadow'.children = {}
               /\ shadow'.ledger = <<>>
               /\ \A r \in DOMAIN res' : ~res'[r].live]_vars

\* The empty descriptor was just handled on a root that held a mini-app with
\* a registered resource.
C12_Witness ==
  /\ Len(events) >= 1
  /\ LastEvent.extra = "empty"
  /\ LastEvent.ticket = ticket
  /\ shadow.has
  /\ \E r \in DOMAIN res : res[r].handle = r /\ res[r].disposedAt >= 0

\* Load t runs into an error that is no AbortError in this step.
FailStep(t) == loads[t].failed = "" /\ loads'[t].failed # ""

\* The step appends an error event of ticket t and leaves the root drained
\* and cleared.
ReportsFailure(t) ==
  /\ Len(events') = Len(events) + 1
  /\ events'[Len(events')].type = "error"
  /\ events'[Len(events')].ticket = t
  /\ shadow'.children = {}
  /\ shadow'.ledger = <<>>
  /\ \A r \in DOMAIN res' : ~res'[r].live

\* C13 as claimed: whatever failure a load runs into, unless it was aborted,
\* the root is drained and cleared and an error event with that load's
\* ticket is emitted.
C13_FailureAlwaysReported ==
  [][\A t \in Tickets : FailStep(t) => ReportsFailure(t)]_vars

\* C13 as amended: a failure of a load whose ticket is still current drains
\* and clears the root and emits an error event with that ticket, whose
\* message holds the status code when a fetch failed; a failure of a
\* superseded load emits nothing and leaves root and resources as they are.
C13_CurrentFailureReported ==
  [][\A t \in Tickets : FailStep(t) =>
       IF ticket = t
       THEN /\ ReportsFailure(t)
            /\ events'[Len(events')].slug = loads[t].slug
            /\ loads'[t].status = 404 =>
                 events'[Len(events')].extra = "Unable to load project asset (404)"
            /\ (loads[t].pc = "await"
                  /\ loads'[t].failed \notin {"Invalid URL", "SyntaxError"}) =>
                 events'[Len(events')].extra = "Unable to load project script (404)"
       ELSE /\ events' = events
            /\ shadow' = shadow
            /\ res' = res]_vars

\* An external script of the current load was answered 404 after part of
\* the document had been attached: the root is cleared and disposed.
C13_Witness ==
  /\ Len(events) >= 1
  /\ LastEvent.type = "error"
  /\ LastEvent.extra = "Unable to load project script (404)"
  /\ LastEvent.ticket = ticket
  /\ shadow.has /\ shadow.disposed /\ shadow.children = {}

\* Events of type ty carrying ticket t.
EventsOf(t, ty) == {i \in DOMAIN events : events[i].ticket = t /\ events[i].type = ty}

\* The top-level nodes of a document that yield a script to run, in order,
\* once for each script they hold.
RECURSIVE ScriptNodesFrom(_, _)
ScriptNodesFrom(doc, i) ==
  IF i > Len(doc) THEN <<>>
  ELSE (IF doc[i] \in {"inline", "throws", "syntax", "ext", "wrap"} THEN <<i>>
        ELSE IF doc[i] = "nest" THEN <<i, i>>
        ELSE <<>>) \o ScriptNodesFrom(doc, i + 1)

ScriptNodes(doc) == ScriptNodesFrom(doc, 1)

C15_ScriptErrorTriggersErrorState ==
  \A t \in Tickets :
    (\E i \in DOMAIN loads[t].exec : loads[t].doc[loads[t].exec[i]] = "throws") =>
      EventsOf(t, "error") # {}

IsPrefix(a, b) == Len(a) <= Len(b) /\ \A i \in DOMAIN a : a[i] = b[i]

\* C16: the scripts of a document are collected and run in the order in
\* which their script elements stand in the document, inline and fetched
\* alike, however long a fetch takes.
C16_ScriptsRunInDocumentOrder ==
  \A t \in Tickets :
    /\ IsPrefix(loads[t].bucket, ScriptNodes(loads[t].doc))
    /\ IsPrefix(loads[t].exec, loads[t].bucket)
    /\ loads[t].ran => loads[t].exec = ScriptNodes(loads[t].doc)

\* A fetched script ran first and two inline scripts after it.
C16_Witness ==
  \E t \in Tickets :
    /\ loads[t].ran
    /\ Len(loads[t].exec) = 3
    /\ loads[t].doc[loads[t].exec[1]] = "ext"
    /\ loads[t].doc[loads[t].exec[3]] = "inline"

\* The nodes load t attaches for its document: one per top-level element.
AttachedNodes(t, doc) == {<<t, j>> : j \in {i \in DOMAIN doc : doc[i] \in {"elem", "wrap", "nest"}}}

\* C17: when the first script of a load is run, every top-level node of the
\* load's document has been transformed and its clone is attached to the
\* shadow root.
C17_ScriptsRunAfterInjection ==
  [][\A t \in Tickets :
       (loads[t].exec = <<>> /\ loads'[t].exec # <<>>) =>
         /\ loads'[t].idx > Len(loads'[t].doc)
         /\ AttachedNodes(t, loads'[t].doc) \subseteq shadow'.children]_vars

\* A script that stands before an element in the document has run, and the
\* element is attached.
C17_Witness ==
  \E t \in Tickets :
    /\ loads[t].doc = <<"inline", "elem">>
    /\ loads[t].exec = <<1>>
    /\ <<t, 2>> \in shadow.children

\* A loaded event without the empty marker is emitted in this step.
LoadedStep ==
  /\ Len(events') = Len(events) + 1
  /\ events'[Len(events')].type = "loaded"
  /\ events'[Len(events')].extra = "none"

\* C18: a loaded event without the empty marker is emitted for ticket t only
\* when the entry document of t was fetched with success, every node of it
\* is attached to the root, every script of it has been run, and t is the
\* current ticket.
C18_LoadedOnlyOnCompletion ==
  [][LoadedStep =>
       LET t == events'[Len(events')].ticket IN
         /\ ticket' = t
         /\ loads'[t].status = 200
         /\ loads'[t].pc = "done"
         /\ shadow'.has
         /\ AttachedNodes(t, loads'[t].doc) \subseteq shadow'.children
         /\ loads'[t].exec = ScriptNodes(loads'[t].doc)]_vars

\* A load that had to wait for an external script has emitted loaded.
C18_Witness ==
  /\ Len(events) >= 2
  /\ LastEvent.type = "loaded" /\ LastEvent.extra = "none"
  /\ loads[LastEvent.ticket].doc = <<"wrap", "badtype">>
  /\ loads[LastEvent.ticket].exec = <<1>>

\* C19: once the component is unmounted the fetch in flight is aborted, the
\* root has no children and its ledger is empty, and no event has been
\* emitted since the final ticket was minted.
C19_UnmountedRootStaysEmpty ==
  phase = "unmounted" =>
    /\ activeController = 0
    /\ \A t \in Tickets : loads[t].pc = "fetch" => loads[t].aborted
    /\ \A i \in DOMAIN events : events[i].at < ticket
    /\ shadow.children = {}
    /\ shadow.ledger = <<>>

\* C20: a script element with a type that is not JavaScript yields no script
\* to run, starts no fetch and is not in the output; and no script element
\* of any type is ever attached to the root.
C20_ForeignScriptDropped ==
  \A t \in Tickets :
    LET doc == loads[t].doc IN
      /\ \A i \in DOMAIN loads[t].bucket : doc[loads[t].bucket[i]] # "badtype"
      /\ loads[t].pc = "await" => doc[loads[t].idx] # "badtype"
      /\ \A j \in DOMAIN doc : (isScript(doc[j]) => <<t, j>> \notin shadow.children)

\* A document with a foreign script after an element was loaded and is
\* attached.
C20_Witness ==
  \E t \in Tickets :
    /\ loads[t].doc = <<"wrap", "badtype">>
    /\ loads[t].ran
    /\ loads[t].bucket = <<1>>
    /\ shadow.children = {<<t, 0>>, <<t, 1>>}

\* ------------------------------------------------------------ C21 - C23
Transferred == applied.fn = "transferAttributes" /\ applied.done

\* What a URL-bearing attribute is rewritten to.
Rewritten(name, value) ==
  IF name = "srcset" THEN normaliseSrcSet(value, BaseUrl).value
                     ELSE resolveUrl(value, BaseUrl).value

\* C21: for every source element, of any tag name, every attribute it carries
\* is on the output element after transferAttributes: an attribute other than
\* src, href, xlink:href and srcset with its value verbatim, each of these four
\* with its value rewritten once.
C21_NoAttributeLost ==
  Transferred =>
    \A n \in DOMAIN applied.arg.attributes :
      /\ n \in DOMAIN applied.out.value
      /\ applied.out.value[n] =
           IF n \in SkippedNames THEN Rewritten(n, applied.arg.attributes[n])
                                 ELSE applied.arg.attributes[n]

Resolved == applied.fn = "resolveUrl" /\ applied.done

\* A value resolveUrl is to hand back as it is: empty, a fragment, a value
\* with a URI scheme (data: included), a protocol-relative value.
PassesThrough(v) ==
  \/ v = <<>>
  \/ v[1] = "#"
  \/ \E k \in 2..Len(v) : /\ v[k] = ":"
                          /\ \A j \in 1..(k - 1) : v[j] \in {"a", "."}
                          /\ v[1] = "a"
  \/ (Len(v) >= 2 /\ v[1] = "/" /\ v[2] = "/")

\* A relative path of plain segments, such as a/b.png.
PlainPath(v) ==
  /\ v # <<>>
  /\ v[1] = "a"
  /\ \A i \in DOMAIN v : /\ v[i] \in {"a", ".", "/"}
                         /\ v[i] = "." => v[i - 1] = "a"

\* The directory of the entry point /p/d/i.
BaseDirectory == <<"/", "p", "/", "d", "/">>

\* What resolveUrl returned is as C22 describes it.
ReturnsAsDescribed ==
  IF PassesThrough(applied.arg)
    THEN applied.out.value = applied.arg
    ELSE /\ applied.out.value # <<>>
         /\ applied.out.value[1] = "/"
         /\ PlainPath(applied.arg) => applied.out.value = BaseDirectory \o applied.arg

\* C22 as stated: resolveUrl returns the value unchanged when it is empty,
\* starts with "#", carries a scheme or starts with "//", and for every other
\* value returns the path, query and fragment of the value resolved against
\* the base.
C22_ResolveUrlAlwaysReturns ==
  Resolved => (~applied.out.threw /\ ReturnsAsDescribed)

\* C22 amended: the same for every value the URL parser accepts; a value it
\* rejects, which begins with two slashes or backslashes other than "//",
\* makes resolveUrl throw.
C22_ResolveUrlReturnsOrThrows ==
  Resolved =>
    IF applied.out.threw
      THEN /\ ~PassesThrough(applied.arg)
           /\ Len(applied.arg) >= 2
           /\ applied.arg[1] \in {"/", "\\"}
           /\ applied.arg[2] \in {"/", "\\"}
      ELSE ReturnsAsDescribed

\* a/a against /p/d/i gives /p/d/a/a.
C22_Witness ==
  /\ Resolved
  /\ applied.arg = <<"a", "/", "a">>
  /\ applied.out = [threw |-> FALSE, value |-> <<"/", "p", "/", "d", "/", "a", "/", "a">>]

Normalised == applied.fn = "normaliseSrcSet" /\ applied.done /\ ~applied.out.threw

\* The URL portion of a candidate: up to its first white space once trimmed;
\* its descriptor suffix: what follows, trimmed.
UrlPortion(c) == SubSeq(trim(c), 1, indexOfAny(trim(c), {" "}, 1) - 1)
DescriptorSuffix(c) ==
  trim(SubSeq(trim(c), indexOfAny(trim(c), {" "}, 1), Len(trim(c))))

\* The candidate as C23 describes its rewriting.
ExpectedCandidate(c) ==
  IF DescriptorSuffix(c) = <<>>
    THEN resolveUrl(UrlPortion(c), BaseUrl).value
    ELSE resolveUrl(UrlPortion(c), BaseUrl).value \o <<" ">> \o DescriptorSuffix(c)

RECURSIVE ExpectedSrcSet(_)
ExpectedSrcSet(candidates) ==
  IF candidates = <<>> THEN <<>>
  ELSE IF UrlPortion(Head(candidates)) = <<>> THEN ExpectedSrcSet(Tail(candidates))
  ELSE <<ExpectedCandidate(Head(candidates))>> \o ExpectedSrcSet(Tail(candidates))

\* C23: normaliseSrcSet gives one candidate per comma-separated input candidate
\* with a non-empty URL portion, in the same order and joined with ", ": the
\* URL portion resolved with resolveUrl, the descriptor suffix unchanged.
C23_SrcSetCandidatesPreserved ==
  Normalised =>
    applied.out.value = join(ExpectedSrcSet(split(applied.arg, ",")), <<",", " ">>)

\* ------------------------------------------------------------ C24 - C25
\* C24: a click on a project whose slug is already the selected one changes
\* nothing: the sandbox mints no ticket, starts no fetch and emits no event,
\* and the host's selection, recorded ticket and sandbox status stay as they
\* were.
C24_ReselectionIsNoOp ==
  [][app'.op = <<"select", app.selectedSlug>> =>
       /\ ticket' = ticket
       /\ loads' = loads
       /\ activeController' = activeController
       /\ events' = events
       /\ app'.selectedSlug = app.selectedSlug
       /\ app'.activeSandbox = app.activeSandbox
       /\ app'.status = app.status
       /\ app'.errorMessage = app.errorMessage]_vars

\* The selected project was clicked again once its sandbox had loaded.
C24_Witness ==
  /\ app.op = <<"select", "a">>
  /\ app.selectedSlug = "a"
  /\ app.status = "ready"
  /\ ticket = 1

\* The payload a listener is called with in this step, if any.
ListenerStep == app'.op[1] = "listener" /\ app' # app
EmitStep == Len(events') > Len(events)
PayloadType == IF EmitStep THEN events'[Len(events')].type ELSE app'.op[2]
PayloadSlug == IF EmitStep THEN events'[Len(events')].slug ELSE app'.op[3]
PayloadTicket == IF EmitStep THEN events'[Len(events')].ticket ELSE app'.op[4]

\* The step changes the host's sandbox status by handling an event.
StatusChangedByEvent ==
  /\ ListenerStep \/ EmitStep
  /\ app'.selectedSlug = app.selectedSlug
  /\ app'.status # app.status

\* C25 as stated: the host changes its sandbox status on an event only when
\* the event's slug is the selected slug and, for loaded and error events, its
\* ticket is the ticket recorded from the last accepted loading event.
C25_StatusFollowsRecordedTicket ==
  [][StatusChangedByEvent =>
       /\ PayloadSlug = app.selectedSlug
       /\ PayloadType \in {"loaded", "error"} =>
            PayloadTicket = app.activeSandbox.ticket]_vars

\* C25 amended: the same, except that while no loading event has been accepted
\* since the selection (the recorded ticket is null) a loaded or error event of
\* the selected slug is accepted whatever its ticket.
C25_StatusFollowsTicketOnceRecorded ==
  [][StatusChangedByEvent =>
       /\ PayloadSlug = app.selectedSlug
       /\ (PayloadType \in {"loaded", "error"} /\ app.activeSandbox.ticket # NullTicket) =>
            PayloadTicket = app.activeSandbox.ticket]_vars

\* A loaded event carrying the recorded ticket has made the host ready.
C25_Witness ==
  /\ app.status = "ready"
  /\ app.activeSandbox.ticket = 1
  /\ app.op = <<"continue">>
  /\ events # <<>>
  /\ events[Len(events)].type = "loaded"
  /\ events[Len(events)].ticket = 1

\* ------------------------------------------------------------ C26 - C28
\* The path a request asks for: its part after /projects/, URL-decoded, taken
\* from the projects directory, with "." and ".." segments resolved.
RequestedSegments ==
  normalizeSegments(
    split(IF decodeURIComponent(SubSeq(applied.arg, 4, Len(applied.arg))) # <<>>
             /\ decodeURIComponent(SubSeq(applied.arg, 4, Len(applied.arg)))[1] = "/"
            THEN decodeURIComponent(SubSeq(applied.arg, 4, Len(applied.arg)))
            ELSE PROJECT_DIRECTORY \o <<"/">>
                   \o decodeURIComponent(SubSeq(applied.arg, 4, Len(applied.arg))),
          "/"),
    1, <<>>)

\* Segments of a path in the projects directory /r/p.
InsideProjects(segments) ==
  Len(segments) >= 2 /\ segments[1] = <<"r">> /\ segments[2] = <<"p">>

\* C26: a request under /projects/ whose decoded and resolved path lies
\* outside the projects directory is answered 403 Forbidden, and no file or
\* directory outside the projects directory is read.
C26_NoFileOutsideProjects ==
  (applied.fn = "middleware" /\ applied.done) =>
    /\ ~InsideProjects(RequestedSegments) =>
         (applied.out.status = 403 /\ applied.out.body = "Forbidden.")
    /\ applied.out.touched # <<>> =>
         InsideProjects(normalizeSegments(split(applied.out.touched, "/"), 1, <<>>))

Listed == applied.fn = "loadProjectManifest" /\ applied.done

\* The config of the directory a manifest entry was made from (the entry
\* point names the directory).
ConfigOf(entry) ==
  applied.arg[CHOOSE i \in DOMAIN applied.arg :
                applied.arg[i].name = entry.entryPoint[2]].config

\* The order the claim speaks of: entries with a numeric order first, by
\* order; then by name.
HasOrder(entry) == ConfigOf(entry).order.type = "number"
OrderOf(entry) == ConfigOf(entry).order.value
Precedes(a, b) ==
  \/ HasOrder(a) /\ ~HasOrder(b)
  \/ HasOrder(a) /\ HasOrder(b) /\ OrderOf(a) < OrderOf(b)
  \/ HasOrder(a) /\ HasOrder(b) /\ OrderOf(a) = OrderOf(b) /\ rank(a.name) <= rank(b.name)
  \/ ~HasOrder(a) /\ ~HasOrder(b) /\ rank(a.name) <= rank(b.name)

C28_SlugsUnique ==
  Listed =>
    \A i, j \in DOMAIN applied.out : i # j => applied.out[i].slug # applied.out[j].slug

\* ------------------------------------------------------------------ C29
\* C29: the resources declared in the <head> of a load's document are handled
\* like those of the body: once the load has run its scripts and is still the
\* current one, each stylesheet link of the head is attached to the shadow
\* root and each external script of the head has been run.  (The j-th child
\* of the head is node -j of the document.)
C29_HeadResourcesHandled ==
  \A t \in Tickets :
    (loads[t].ran /\ ticket = t /\ phase = "mounted") =>
      \A j \in DOMAIN loads[t].head :
        /\ loads[t].head[j] = "sheet" => <<t, 0 - j>> \in shadow.children
        /\ loads[t].head[j] = "ext" => (0 - j) \in Range(loads[t].exec)

\* C30: disabling the sizer restores, on every tracked canvas still
\* connected to the tree, the width and height attributes captured when the
\* canvas was first tracked (absent when they were absent), and leaves no
\* entry behind.
C30_DisableRestoresOriginals ==
  [][(sizer.enabled /\ ~sizer'.enabled) =>
       /\ sizer'.originals = <<>>
       /\ \A c \in DOMAIN sizer.originals :
            sizer.canvases[c].isConnected =>
              /\ sizer'.canvases[c].width = sizer.first[c].width
              /\ sizer'.canvases[c].height = sizer.first[c].height]_vars

\* C31: a load resumed after its ticket was superseded stops there: it
\* awaits no further script fetch and calls cloneNodeTree on no further node.
C31_SupersededLoadStops ==
  [][\A t \in Tickets :
       (Resumes(t) /\ ticket # t) =>
         /\ loads'[t].pc = "done"
         /\ loads'[t].cloned = loads[t].cloned]_vars

\* A release action is executed in this step.
Released(r) == res'[r].released /\ (r \in DOMAIN res => ~res[r].released)

ScopeStep ==
  /\ Len(res') = Len(res) + 1
  /\ ticket' = ticket
  /\ res'[Len(res')].kind \notin CleanupKinds

New == res'[Len(res')]

\* Every live resource no drain has seen yet has its release action in the
\* ledger.
LiveHasRelease ==
  \A r \in DOMAIN res :
    (res[r].live /\ res[r].tornAt = -1) => r \in Range(shadow.ledger)

\* C33 as stated: every call through the scope performs the real operation
\* and appends exactly one release action to the ledger.
C33_EveryCallRegisters ==
  [][ScopeStep =>
       /\ New.live /\ New.handle = Len(res')
       /\ shadow'.ledger = Append(shadow.ledger, Len(res'))]_vars

\* C33: a call through the scope performs the real operation and appends
\* exactly one release action to the ledger, unless it is a setTimeout,
\* setInterval or requestAnimationFrame call on a root marked disposed, which
\* performs nothing, appends nothing and returns -1; every live resource has
\* its release action in the ledger until the next drain.
C33_CallRegistersUnlessDisposed ==
  [][/\ ScopeStep =>
          IF New.kind \in TimerKinds /\ shadow.disposed
          THEN /\ ~New.live /\ New.handle = -1
               /\ shadow'.ledger = shadow.ledger
          ELSE /\ New.live /\ New.handle = Len(res')
               /\ shadow'.ledger = Append(shadow.ledger, Len(res'))
     /\ LiveHasRelease']_vars

\* A timer registered on the live root, and a later timer call on the
\* disposed root next to a listener registered there.
C33_Witness ==
  /\ Len(res) = 2
  /\ shadow.disposed
  /\ res[1].kind = "addEventListener" /\ res[1].onDisposed /\ res[1].live
  /\ res[2].kind = "setTimeout" /\ res[2].handle = -1
  /\ shadow.ledger = <<1>>

\* C34: the root is drained and cleared for a load only when the load's
\* document is fully transformed: a load that still waits for an external
\* script has not touched the previous content of the root.
C34_TransformedBeforeDrain ==
  \A t \in Tickets : loads[t].pc = "await" => loads[t].prepared = -1

\* C35: a ticket minted for a descriptor with slug and entry point has its
\* loading event from the start; every loaded or error event carrying the
\* ticket comes after that loading event, and there is at most one.
C35_LoadingThenOneTerminal ==
  \A t \in Tickets :
    loads[t].pc # "none" =>
      /\ EventsOf(t, "loading") # {}
      /\ \A i \in EventsOf(t, "loaded") \cup EventsOf(t, "error") :
           \E j \in EventsOf(t, "loading") : j < i
      /\ Cardinality(EventsOf(t, "loaded") \cup EventsOf(t, "error")) <= 1

\* A second loading began while the first load was still fetching, and the
\* second load has ended with its terminal event.
C35_Witness ==
  /\ Len(events) = 3
  /\ events[1].type = "loading" /\ events[1].ticket = 1
  /\ events[2].type = "loading" /\ events[2].ticket = 2
  /\ events[3].type \in {"loaded", "error"} /\ events[3].ticket = 2
  /\ loads[1].pc = "fetch"

\* C36: the scripts of a load are never run on a root marked disposed.
C36_ScriptsRunOnLiveRoot ==
  \A t \in Tickets : loads[t].rootAtRun # "disposed"

\* The first load failed and disposed the root; the second load has run its
\* scripts on the same root.
C36_Witness ==
  /\ EventsOf(1, "error") # {}
  /\ loads[1].prepared >= 0
  /\ loads[2].exec # <<>>
  /\ loads[2].rootAtRun = "live"

\* Tickets loadProject has been called with.
Started == {t \in Tickets : loads[t].pc # "none"}

\* C37: at most one entry-document fetch with a controller that was not
\* aborted is in flight, and activeController is the controller of the most
\* recent loadProject call, or null (0) when there was none or the component
\* is unmounted.
C37_OneLiveFetch ==
  /\ Cardinality({t \in Tickets : loads[t].pc = "fetch" /\ ~loads[t].aborted}) <= 1
  /\ activeController =
       IF phase = "unmounted" \/ Started = {} THEN 0
       ELSE CHOOSE t \in Started : \A u \in Started : u <= t

\* Two entry-document fetches are in flight; the first one was aborted by the
\* second loadProject call.
C37_Witness ==
  /\ loads[1].pc = "fetch" /\ loads[1].aborted
  /\ loads[2].pc = "fetch" /\ ~loads[2].aborted
  /\ activeController = 2

\* C38: once a project has been selected, a host status of loading is
\* followed by ready or error, unless another click or list change comes
\* first.
C38_LoadingEnds ==
  (app.undisturbed /\ app.status = "loading")
    ~> (app.status \in {"ready", "error"} \/ app.op[1] \in {"select", "filter"})

\* The selected project's load has announced itself and its entry fetch is
\* still in flight: the host shows loading with the ticket recorded.
C38_Witness ==
  /\ app.undisturbed
  /\ app.status = "loading"
  /\ app.activeSandbox.ticket = 1
  /\ loads[1].pc = "fetch"

\* C39: right after the watcher of the filtered list has run, the selected
\* slug is empty exactly when the list is empty and is otherwise the slug of a
\* project of the list; with an empty list the status is idle and the recorded
\* ticket null.
C39_SelectionFollowsFilter ==
  app.op = <<"filter">> =>
    /\ (app.selectedSlug = "") <=> (app.filtered = {})
    /\ app.filtered # {} => \E i \in app.filtered : Catalog[i].slug = app.selectedSlug
    /\ app.filtered = {} =>
         (app.status = "idle" /\ app.activeSandbox.ticket = NullTicket)

\* The list has become empty (it is empty at setup and the watcher runs on a
\* change only), and the instance that was loading is gone.
C39_Witness ==
  /\ app.op = <<"filter">>
  /\ app.filtered = {}
  /\ app.selectedSlug = ""
  /\ app.status = "idle"
  /\ app.mounted = <<>>
  /\ phase = "setup"

\* The step invokes every release action of the ledger it finds: a drain.
Drains == \A i \in 1..Len(shadow.ledger) : res'[shadow.ledger[i]].released

\* The step leaves the resources in place and the browser drops one of them
\* without its release action being invoked (it was cancelled, or it was a
\* timeout or frame that fired), or runs a callback.
CancelsOrFires ==
  /\ Len(res') = Len(res)
  /\ \E r \in DOMAIN res :
       \/ res[r].live /\ ~res'[r].live /\ ~res'[r].released
       \/ res'[r].calls > res[r].calls

\* C40: the ledger gets shorter only in a drain, which empties it; cancelling
\* through the scope and the firing of a timer or frame leave it unchanged.
C40_LedgerShrinksOnlyByDrain ==
  [][/\ Len(shadow'.ledger) < Len(shadow.ledger) => (Drains /\ shadow'.ledger = <<>>)
     /\ CancelsOrFires => shadow'.ledger = shadow.ledger]_vars

\* An interval was cancelled through the scope (an interval does not end by
\* firing) and a timeout has fired; both release actions are still in the
\* ledger.
C40_Witness ==
  /\ Len(shadow.ledger) = 2
  /\ \E r \in Range(shadow.ledger) :
       res[r].kind = "setInterval" /\ ~res[r].live /\ ~res[r].released
  /\ \E r \in Range(shadow.ledger) :
       res[r].kind = "setTimeout" /\ res[r].calls = 1 /\ ~res[r].live /\ ~res[r].released

====
